---- MODULE Spec2Model ----
(***************************************************************************)
(* Model of the literature-to-parameter extraction pipeline of the HTA     *)
(* automation repository (literature_search.py), and of the model update   *)
(* of data_processor.py.                                                   *)
(*                                                                         *)
(* Python strings are modelled as sequences of one-character strings, so   *)
(* that substring tests, lower-casing and the two regular expressions are  *)
(* computed character by character.  The four non-ASCII characters that    *)
(* matter are named: RUPEE (U+20B9), and the three characters that the     *)
(* source file holds inside the currency character class, A_CIRC (U+00E2), *)
(* LOW9 (U+201A) and SUP1 (U+00B9).                                        *)
(***************************************************************************)
EXTENDS Integers, Sequences, FiniteSets, TLC

VARIABLES
    articles,        \* argument of extract_relevant_data: list of dicts / None
    project_type,    \* argument of extract_relevant_data
    pc,              \* position in extract_relevant_data
    i,               \* index of the article the for loop handles next
    extracted_data,  \* the list built by extract_relevant_data
    kept,            \* history: loop index of the article behind each appended data point
    text,            \* argument of a direct extract_percentage / extract_cost call
    pct_ret,         \* return value of extract_percentage(text)
    cost_ret,        \* return value of extract_cost(text)
    history,         \* the <<arguments, return value>> pairs of the completed calls
    calls,           \* number of completed calls of the operation a caller repeats
    project_name,    \* project_dir.name
    files,           \* the 04_*.py files of project_dir: number of "_updated" suffixes -> bytes
    linesep,         \* os.linesep of the platform
    df_extracted,    \* argument of update_model_with_real_data: the rows of the table
    df_filled,       \* the table process_project_data handed on, <<>> when none
    model_file,      \* update_model_with_real_data: the file the iterdir loop selected
    model_content,   \* update_model_with_real_data: the text handed to write_text
    found,           \* search_and_fetch: the PMIDs search_pubmed returned
    pmids,           \* search_and_fetch: the PMIDs kept for fetching
    requests,        \* history: the fetch_abstracts calls made, in order
    sleeps,          \* history: number of time.sleep(0.5) calls made
    run,             \* number of the process_project run on the folder, from 1
    env,             \* what the project folder and the system PATH hold
    log_lines,       \* process_project: log_lines
    disk,            \* the files the pipeline writes into the folder
    model_stdout,    \* process_project: model_stdout
    steps,           \* history: the steps the current run has completed, in order
    world,           \* validate_hta_system: the directory tree it inspects
    validation_results,  \* validate_hta_system: validation_results
    saved            \* validate_hta_system: what the two files it writes hold

callVars == <<history, calls>>
searchVars == <<project_name>>
updateVars == <<files, linesep, df_extracted, df_filled, model_file, model_content>>
fetchVars == <<found, pmids, requests, sleeps>>
runVars == <<run, env, log_lines, disk, model_stdout, steps>>
validVars == <<world, validation_results, saved>>

vars ==
    <<articles, project_type, pc, i, extracted_data, kept, text, pct_ret, cost_ret,
      callVars, searchVars, updateVars, fetchVars, runVars, validVars>>

(***************************************************************************)
(* Bounds of the model.                                                    *)
(***************************************************************************)
MaxLen == 4        \* longest text handed directly to the two extractors
MaxArticles == 3   \* longest article batch
MaxFrags == 3      \* most fragments concatenated into one generated abstract
MaxCalls == 3      \* most calls of extract_relevant_data in one run of the caller
MaxNameParts == 2  \* most parts concatenated into one folder name
MaxContent == 3    \* most lines and line-ending bytes in the original model file
MaxUpdates == 2    \* most calls of update_model_with_real_data on one folder
MaxFound == 102    \* most PMIDs search_pubmed returns
MaxRuns == 2       \* most process_project runs on one folder
MaxBroken == 2     \* most folders and files that are missing or wrong

(***************************************************************************)
(* Python values.                                                          *)
(***************************************************************************)
\* Python's None, where a string could stand
None == <<"None">>
\* a result not yet returned
Unset == <<"Unset">>

Min(S) == CHOOSE x \in S : \A y \in S : x <= y

\* characters matched by \d (the ASCII digits are the ones the model draws)
Digits == {"0", "1", "2", "3", "4", "5", "6", "7", "8", "9"}
IsDigit(c) == c \in Digits

UPPER == <<"A", "B", "C", "D", "E", "F", "G", "H", "I", "J", "K", "L", "M",
           "N", "O", "P", "Q", "R", "S", "T", "U", "V", "W", "X", "Y", "Z">>
LOWER == <<"a", "b", "c", "d", "e", "f", "g", "h", "i", "j", "k", "l", "m",
           "n", "o", "p", "q", "r", "s", "t", "u", "v", "w", "x", "y", "z">>

LowerChar(c) ==
    IF \E k \in 1..Len(UPPER) : UPPER[k] = c
    THEN LOWER[CHOOSE k \in 1..Len(UPPER) : UPPER[k] = c]
    ELSE c

\* str.lower()
Lower(s) == [k \in 1..Len(s) |-> LowerChar(s[k])]

\* needle in hay
Contains(needle, hay) ==
    \E k \in 1..(Len(hay) - Len(needle) + 1) :
        SubSeq(hay, k, k + Len(needle) - 1) = needle

\* str.replace(ch, '')
Remove(s, ch) == SelectSeq(s, LAMBDA c : c # ch)

(***************************************************************************)
(* The regular expressions.  DigitsEnd is \d+ (greedy): the index after    *)
(* the longest run of digits starting at p (p itself when there is none).  *)
(***************************************************************************)
DigitsEnd(t, p) ==
    CHOOSE e \in p..(Len(t) + 1) :
        /\ \A k \in p..(e - 1) : IsDigit(t[k])
        /\ (e = Len(t) + 1 \/ ~IsDigit(t[e]))

\* (\d+(?:\.\d+)?)% tried at p: the last index of group 1, or 0 for no match.
\* \d+ takes the whole run (a shorter one is followed by a digit and fails);
\* the optional fraction is tried first, and given up when no % follows it.
PctEndAt(t, p) ==
    LET q == DigitsEnd(t, p) IN
    IF q = p \/ q > Len(t) THEN 0
    ELSE IF /\ t[q] = "."
            /\ q < Len(t)
            /\ DigitsEnd(t, q + 1) > q + 1
            /\ DigitsEnd(t, q + 1) <= Len(t)
            /\ t[DigitsEnd(t, q + 1)] = "%"
         THEN DigitsEnd(t, q + 1) - 1
    ELSE IF t[q] = "%" THEN q - 1
    ELSE 0

RECURSIVE FindAllPctFrom(_, _)
FindAllPctFrom(t, from) ==
    LET starts == {p \in from..Len(t) : PctEndAt(t, p) > 0} IN
    IF starts = {} THEN <<>>
    ELSE LET p == Min(starts)
             e == PctEndAt(t, p)
         IN  <<SubSeq(t, p, e)>> \o FindAllPctFrom(t, e + 2)

\* re.findall(r'(\d+(?:\.\d+)?)%', text)
FindAllPct(t) == FindAllPctFrom(t, 1)

\* the mutant of extract_percentage: the last match instead of the first
extract_percentage_last(t) ==
    LET percentages == FindAllPct(t) IN
    IF percentages # <<>> THEN percentages[Len(percentages)] ELSE None

\* a mutant of extract_percentage: a value with three or more integer digits
\* (other than 100) is rejected as out of range
extract_percentage_checked(t) ==
    LET percentages == FindAllPct(t) IN
    IF percentages = <<>> THEN None
    ELSE LET v == percentages[1]
             whole == DigitsEnd(v, 1) - 1
         IN  IF whole > 2 /\ SubSeq(v, 1, whole) # <<"1", "0", "0">> THEN None ELSE v

extract_percentage(t) ==
    LET percentages == FindAllPct(t) IN
    IF percentages # <<>> THEN percentages[1] ELSE None

\* the character class [\$...] as the source file spells it
CurrencyClass == {"$", "A_CIRC", "LOW9", "SUP1"}

\* (?:,\d+)* from q on (greedy): the index after the last comma group
RECURSIVE CommaGroupsEnd(_, _)
CommaGroupsEnd(t, q) ==
    IF q < Len(t) /\ t[q] = "," /\ IsDigit(t[q + 1])
    THEN CommaGroupsEnd(t, DigitsEnd(t, q + 1))
    ELSE q

\* [\$...](\d+(?:,\d+)*(?:\.\d+)?) tried at p: the index after group 1, or 0
CostEndAt(t, p) ==
    IF ~(t[p] \in CurrencyClass /\ p < Len(t) /\ IsDigit(t[p + 1])) THEN 0
    ELSE LET q == CommaGroupsEnd(t, DigitsEnd(t, p + 1)) IN
         IF q < Len(t) /\ t[q] = "." /\ IsDigit(t[q + 1])
         THEN DigitsEnd(t, q + 1)
         ELSE q

RECURSIVE FindAllCostFrom(_, _)
FindAllCostFrom(t, from) ==
    LET starts == {p \in from..Len(t) : CostEndAt(t, p) > 0} IN
    IF starts = {} THEN <<>>
    ELSE LET p == Min(starts)
             e == CostEndAt(t, p)
         IN  <<SubSeq(t, p + 1, e - 1)>> \o FindAllCostFrom(t, e)

\* re.findall(r'[\$...](\d+(?:,\d+)*(?:\.\d+)?)', text)
FindAllCost(t) == FindAllCostFrom(t, 1)

\* the mutant of extract_cost: the separators are left in
extract_cost_raw(t) ==
    LET costs == FindAllCost(t) IN
    IF costs # <<>> THEN costs[1] ELSE None

extract_cost(t) ==
    LET costs == FindAllCost(t) IN
    IF costs # <<>> THEN Remove(costs[1], ",") ELSE None

(***************************************************************************)
(* Dictionaries: functions from keys to values.                            *)
(***************************************************************************)
\* dict.get(k)
Get(d, k) == IF k \in DOMAIN d THEN d[k] ELSE None

\* d[k] = v
Put(d, k, v) == [x \in (DOMAIN d) \cup {k} |-> IF x = k THEN v ELSE d[x]]

\* a value that is no string and is truthy (a number, a float NaN)
NotAString == <<"NotAString">>

\* the mutant of OrEmpty: the value is used as it is, without the or ""
OrEmptyAsIs(x) == x

\* (x or "")
OrEmpty(x) == IF x = None THEN <<>> ELSE x

\* (x or "").lower() raises AttributeError: what is left of x has no lower()
LowerRaises(x) == OrEmpty(x) \in {None, NotAString}

\* a None entry of the article list
NoneArticle == [is_none |-> TRUE]

(***************************************************************************)
(* The trigger keywords of extract_relevant_data.                          *)
(***************************************************************************)
W_efficacy == <<"e", "f", "f", "i", "c", "a", "c", "y">>
W_effectiveness == <<"e", "f", "f", "e", "c", "t", "i", "v", "e", "n", "e", "s", "s">>
W_cost == <<"c", "o", "s", "t">>
W_price == <<"p", "r", "i", "c", "e">>
W_coverage == <<"c", "o", "v", "e", "r", "a", "g", "e">>
W_uptake == <<"u", "p", "t", "a", "k", "e">>
W_sensitivity == <<"s", "e", "n", "s", "i", "t", "i", "v", "i", "t", "y">>
W_specificity == <<"s", "p", "e", "c", "i", "f", "i", "c", "i", "t", "y">>
W_survival == <<"s", "u", "r", "v", "i", "v", "a", "l">>
W_success == <<"s", "u", "c", "c", "e", "s", "s">>
W_cure == <<"c", "u", "r", "e">>
W_accuracy == <<"a", "c", "c", "u", "r", "a", "c", "y">>

(***************************************************************************)
(* extract_relevant_data, lines 125-175: the data point of one article.    *)
(***************************************************************************)
\* lines 125-126 raise
Raises(article) ==
    LowerRaises(Get(article, "abstract")) \/ LowerRaises(Get(article, "title"))

\* the mutant of NormAbstract: the title is scanned with the abstract
NormAbstractWithTitle(article) ==
    Lower(OrEmpty(Get(article, "title"))) \o <<" ">> \o Lower(OrEmpty(Get(article, "abstract")))

\* abstract = (article.get("abstract") or "").lower()
NormAbstract(article) == Lower(OrEmpty(Get(article, "abstract")))

\* the mutant of BaselinePoint: the lower-cased title of line 126 is stored
BaselinePointLowerTitle(article) ==
    [k \in {"pmid", "title", "year", "doi"} |->
        IF k = "title" THEN Lower(OrEmpty(Get(article, k))) ELSE Get(article, k)]

BaselinePoint(article) ==
    [k \in {"pmid", "title", "year", "doi"} |-> Get(article, k)]

HpvRules(dp, abstract) ==
    LET d1 == IF Contains(W_efficacy, abstract) \/ Contains(W_effectiveness, abstract)
              THEN Put(dp, "efficacy", extract_percentage(abstract)) ELSE dp
        d2 == IF Contains(W_cost, abstract) \/ Contains(W_price, abstract)
              THEN Put(d1, "cost", extract_cost(abstract)) ELSE d1
    IN  IF Contains(W_coverage, abstract) \/ Contains(W_uptake, abstract)
        THEN Put(d2, "coverage", extract_percentage(abstract)) ELSE d2

NcdRules(dp, abstract) ==
    LET d1 == IF Contains(W_sensitivity, abstract)
              THEN Put(dp, "sensitivity", extract_percentage(abstract)) ELSE dp
        d2 == IF Contains(W_specificity, abstract)
              THEN Put(d1, "specificity", extract_percentage(abstract)) ELSE d1
    IN  IF Contains(W_cost, abstract)
        THEN Put(d2, "cost", extract_cost(abstract)) ELSE d2

\* the mutant of DialysisRules: the cost rule writes the key of the other categories
DialysisRulesCostKey(dp, abstract) ==
    LET d1 == IF Contains(W_survival, abstract)
              THEN Put(dp, "survival_rate", extract_percentage(abstract)) ELSE dp
    IN  IF Contains(W_cost, abstract)
        THEN Put(d1, "cost", extract_cost(abstract)) ELSE d1

DialysisRules(dp, abstract) ==
    LET d1 == IF Contains(W_survival, abstract)
              THEN Put(dp, "survival_rate", extract_percentage(abstract)) ELSE dp
    IN  IF Contains(W_cost, abstract)
        THEN Put(d1, "cost_per_session", extract_cost(abstract)) ELSE d1

MdrtbRules(dp, abstract) ==
    LET d1 == IF Contains(W_success, abstract) \/ Contains(W_cure, abstract)
              THEN Put(dp, "success_rate", extract_percentage(abstract)) ELSE dp
    IN  IF Contains(W_cost, abstract)
        THEN Put(d1, "cost", extract_cost(abstract)) ELSE d1

\* a mutant of AiTbRules: sensitivity and specificity take a later percentage
\* than accuracy does
AiTbRulesOwnNumber(dp, abstract) ==
    LET d1 == IF Contains(W_accuracy, abstract)
              THEN Put(dp, "accuracy", extract_percentage(abstract)) ELSE dp
        d2 == IF Contains(W_sensitivity, abstract)
              THEN Put(d1, "sensitivity", extract_percentage_last(abstract)) ELSE d1
    IN  IF Contains(W_specificity, abstract)
        THEN Put(d2, "specificity", extract_percentage_last(abstract)) ELSE d2

AiTbRules(dp, abstract) ==
    LET d1 == IF Contains(W_accuracy, abstract)
              THEN Put(dp, "accuracy", extract_percentage(abstract)) ELSE dp
        d2 == IF Contains(W_sensitivity, abstract)
              THEN Put(d1, "sensitivity", extract_percentage(abstract)) ELSE d1
    IN  IF Contains(W_specificity, abstract)
        THEN Put(d2, "specificity", extract_percentage(abstract)) ELSE d2

\* the mutant of ApplyRules for an unrecognized category: it falls into the first branch
ApplyRulesDefaultHpv(dp, abstract, ptype) ==
    CASE ptype = "ncd_screening" -> NcdRules(dp, abstract)
      [] ptype = "dialysis" -> DialysisRules(dp, abstract)
      [] ptype = "mdrtb" -> MdrtbRules(dp, abstract)
      [] ptype = "ai_tb_cxr" -> AiTbRules(dp, abstract)
      [] OTHER -> HpvRules(dp, abstract)

\* the mutant of ApplyRules with independent ifs: the hpv rules run for every category
ApplyRulesFallThrough(dp, abstract, ptype) ==
    CASE ptype = "hpv_vaccine" -> HpvRules(dp, abstract)
      [] ptype = "ncd_screening" -> NcdRules(HpvRules(dp, abstract), abstract)
      [] ptype = "dialysis" -> DialysisRules(dp, abstract)
      [] ptype = "mdrtb" -> MdrtbRules(dp, abstract)
      [] ptype = "ai_tb_cxr" -> AiTbRules(dp, abstract)
      [] OTHER -> dp

\* the if / elif chain on project_type
ApplyRules(dp, abstract, ptype) ==
    CASE ptype = "hpv_vaccine" -> HpvRules(dp, abstract)
      [] ptype = "ncd_screening" -> NcdRules(dp, abstract)
      [] ptype = "dialysis" -> DialysisRules(dp, abstract)
      [] ptype = "mdrtb" -> MdrtbRules(dp, abstract)
      [] ptype = "ai_tb_cxr" -> AiTbRules(dp, abstract)
      [] OTHER -> dp

DataPoint(article, ptype) ==
    ApplyRules(BaselinePoint(article), NormAbstract(article), ptype)

\* the mutant of Retained: one metric field is not enough
RetainedAboveFive(dp) == Cardinality(DOMAIN dp) > 5

\* the mutant of Retained: the baseline fields are enough
RetainedFromFour(dp) == Cardinality(DOMAIN dp) >= 4

\* len(data_point) > 4
Retained(dp) == Cardinality(DOMAIN dp) > 4

\* the mutant of AppendPoint: the data point goes to the front of the list
InsertPointFirst(list, dp) == <<dp>> \o list

\* the mutant of AppendPoint: a data point whose pmid is in the list is not added
AppendPointUnique(list, dp) ==
    IF \E k \in 1..Len(list) : list[k].pmid = dp.pmid THEN list ELSE Append(list, dp)

\* extracted_data.append(data_point)
AppendPoint(list, dp) == Append(list, dp)

(***************************************************************************)
(* Inputs.  An abstract is one of the example sentences or a concatenation *)
(* of at most MaxFrags fragments: six trigger keywords and three numeric   *)
(* mentions.                                                               *)
(***************************************************************************)
ExFirstMatch ==
    <<"e", "f", "f", "i", "c", "a", "c", "y", " ", "w", "a", "s", " ", "8", "5", "%", " ",
      "i", "n", " ", "g", "r", "o", "u", "p", " ", "A", " ", "a", "n", "d", " ", "9", "0",
      "%", " ", "i", "n", " ", "g", "r", "o", "u", "p", " ", "B">>
ExSeparators ==
    <<"c", "o", "s", "t", " ", "o", "f", " ", "$", "1", ",", "2", "0", "0", ".", "5", "0",
      " ", "p", "e", "r", " ", "d", "o", "s", "e">>
ExIsolation ==
    <<"s", "e", "n", "s", "i", "t", "i", "v", "i", "t", "y", ":", " ", "8", "0", "%", " ",
      "e", "f", "f", "i", "c", "a", "c", "y", ":", " ", "7", "0", "%">>
ExNarrative ==
    <<"T", "h", "e", " ", "c", "o", "s", "t", " ", "w", "a", "s", " ", "h", "i", "g", "h">>
ExRupee ==
    <<"P", "r", "i", "c", "e", " ", "RUPEE", "1", ",", "5", "0", "0", " ", "p", "e", "r",
      " ", "d", "o", "s", "e">>

\* the triggers that are no fragment, and a trigger written with capitals
ExCoverage == W_coverage \o <<" ", "9", "0", "%">>
ExSuccess == W_success \o <<" ", "8", "5", "%">>
ExEffectiveness == W_effectiveness \o <<" ", "8", "5", "%">>
ExPrice == W_price \o <<" ", "$", "4", "0", "0">>
ExUptake == W_uptake \o <<" ", "6", "0", ".", "5", "%">>
ExCure == W_cure \o <<" ", "9", "0", "%">>
ExCapitals == <<"C", "O", "S", "T", " ", "$", "9", "9">>
\* two metrics of one category
ExSeveral ==
    <<"S", "u", "r", "v", "i", "v", "a", "l", " ", "8", "5", "%", ",", " ", "c", "o", "s",
      "t", " ", "$", "1", ",", "2", "0", "0", ".", "5", "0">>

\* three percentage metrics of one category, each with its own number
ExThreeMetrics ==
    W_accuracy \o <<" ", "9", "0", "%", ",", " ">>
        \o W_sensitivity \o <<" ", "8", "5", "%", ",", " ">>
        \o W_specificity \o <<" ", "8", "0", "%">>

Examples ==
    {ExThreeMetrics, ExFirstMatch, ExSeparators, ExIsolation, ExNarrative, ExRupee,
     ExCoverage, ExSuccess, ExEffectiveness, ExPrice, ExUptake, ExCure, ExCapitals,
     ExSeveral}

F_Cost == <<"C", "o", "s", "t">>
F_85 == <<" ", "8", "5", "%">>
F_90 == <<" ", "9", "0", "%">>
F_dollar == <<" ", "$", "1", ",", "2", "0", "0", ".", "5", "0">>

Fragments ==
    {W_efficacy, W_cost, W_sensitivity, W_specificity, W_survival, W_accuracy,
     F_85, F_90, F_dollar}

RECURSIVE Concat(_)
Concat(ss) == IF ss = <<>> THEN <<>> ELSE Head(ss) \o Concat(Tail(ss))

SeqsUpTo(S, n) == UNION {[1..k -> S] : k \in 0..n}

GenAbstracts == {Concat(fs) : fs \in SeqsUpTo(Fragments, MaxFrags)}

P101 == <<"1", "0", "1">>
P102 == <<"1", "0", "2">>
Y2020 == <<"2", "0", "2", "0">>
Doi1 == <<"1", "0", ".", "1", "/", "x">>
Title1 == <<"H", "P", "V", " ", "C", "o", "s", "t", " ", "5", "%">>

Article(pmid, title, abstract, year, doi) ==
    [pmid |-> pmid, title |-> title, abstract |-> abstract, year |-> year, doi |-> doi]

\* one article with a rich abstract
SingleArticles ==
    {Article(P101, Title1, a, Y2020, Doi1) : a \in GenAbstracts \cup Examples}

\* the entries of a batch: None; dicts with every key, whose abstract has no
\* text, a trigger without a value, or triggers with values; dicts with keys
\* missing
BatchItems ==
    {NoneArticle}
    \cup {Article(P101, Title1, a, Y2020, Doi1) :
            a \in {None, W_cost, W_efficacy \o F_85,
                   W_sensitivity \o F_90 \o F_Cost \o F_dollar}}
    \cup {Article(P102, Title1, W_efficacy \o F_85, Y2020, Doi1)}
    \cup {[pmid |-> P102], [pmid |-> P101, title |-> None, abstract |-> W_survival \o F_85]}

Batches == SeqsUpTo(BatchItems, MaxArticles)

Title2 == <<"E", "f", "f", "i", "c", "a", "c", "y", " ", "8", "5", "%">>

\* articles without text, articles whose title holds a trigger and a value, and
\* articles with a field that is no string
ExtraArticles ==
    {Article(P101, t, a, Y2020, Doi1) : t \in {<<>>, None}, a \in {<<>>, None}}
    \cup {[pmid |-> P101, year |-> Y2020, doi |-> Doi1]}
    \cup {Article(P101, Title2, a, Y2020, Doi1) : a \in {<<>>, F_90, W_cost \o F_dollar}}
    \cup {Article(P101, Title1, NotAString, Y2020, Doi1),
          Article(P101, NotAString, W_cost \o F_dollar, Y2020, Doi1)}

ArticleLists == Batches \cup {<<a>> : a \in SingleArticles \cup ExtraArticles}

Recognized == {"hpv_vaccine", "ncd_screening", "dialysis", "mdrtb", "ai_tb_cxr"}
ProjectTypes == Recognized \cup {"general", "hpv"}

(***************************************************************************)
(* extract_relevant_data as a state machine.                               *)
(***************************************************************************)
\* the variables of the operations a specification does not run
IdleCalls == history = {} /\ calls = 0
IdleSearch == project_name = <<>>
IdleUpdate ==
    /\ files = <<>>
    /\ linesep = "LF"
    /\ df_extracted = <<>>
    /\ df_filled = <<>>
    /\ model_file = -1
    /\ model_content = <<>>

IdleFetch == found = <<>> /\ pmids = <<>> /\ requests = <<>> /\ sleeps = 0

IdleRun ==
    /\ run = 0
    /\ env = <<>>
    /\ log_lines = <<>>
    /\ disk = <<>>
    /\ model_stdout = "None"
    /\ steps = <<>>
IdleValidate == world = <<>> /\ validation_results = <<>> /\ saved = <<>>

Init ==
    /\ IdleCalls /\ IdleSearch /\ IdleUpdate /\ IdleFetch /\ IdleRun /\ IdleValidate
    /\ articles \in ArticleLists
    /\ project_type \in ProjectTypes
    /\ pc = "call"
    /\ i = 0
    /\ extracted_data = <<>>
    /\ kept = <<>>
    /\ text = <<>>
    /\ pct_ret = Unset
    /\ cost_ret = Unset

\* a mutant of Begin: the list outlives the call (a module-level list, or a
\* mutable default argument) instead of being created at line 120
BeginKeepsList ==
    /\ pc = "call"
    /\ pc' = "loop"
    /\ i' = 1
    /\ UNCHANGED <<extracted_data, kept>>
    /\ UNCHANGED <<articles, project_type, text, pct_ret, cost_ret,
                 callVars, searchVars, updateVars, fetchVars,
                 runVars, validVars>>

\* line 120
Begin ==
    /\ pc = "call"
    /\ pc' = "loop"
    /\ i' = 1
    /\ extracted_data' = <<>>
    /\ kept' = <<>>
    /\ UNCHANGED <<articles, project_type, text, pct_ret, cost_ret,
                 callVars, searchVars, updateVars, fetchVars,
                 runVars, validVars>>

\* lines 123-124
SkipNone ==
    /\ pc = "loop"
    /\ i <= Len(articles)
    /\ articles[i] = NoneArticle
    /\ i' = i + 1
    /\ UNCHANGED <<articles, project_type, pc, extracted_data, kept, text, pct_ret, cost_ret,
                 callVars, searchVars, updateVars, fetchVars,
                 runVars, validVars>>

\* a mutant of ProcessArticle: the normalised abstract is written back into
\* the article (article["abstract"] = abstract) before the rules run
ProcessArticleInPlace ==
    /\ pc = "loop"
    /\ i <= Len(articles)
    /\ articles[i] # NoneArticle
    /\ ~Raises(articles[i])
    /\ LET data_point == DataPoint(articles[i], project_type) IN
       IF Retained(data_point)
       THEN /\ extracted_data' = AppendPoint(extracted_data, data_point)
            /\ kept' = Append(kept, i)
       ELSE UNCHANGED <<extracted_data, kept>>
    /\ articles' = [articles EXCEPT
                       ![i] = Put(articles[i], "abstract", NormAbstract(articles[i]))]
    /\ i' = i + 1
    /\ UNCHANGED <<project_type, pc, text, pct_ret, cost_ret,
                 callVars, searchVars, updateVars, fetchVars,
                 runVars, validVars>>

\* lines 125-179
ProcessArticle ==
    /\ pc = "loop"
    /\ i <= Len(articles)
    /\ articles[i] # NoneArticle
    /\ ~Raises(articles[i])
    /\ LET data_point == DataPoint(articles[i], project_type) IN
       IF Retained(data_point)
       THEN /\ extracted_data' = AppendPoint(extracted_data, data_point)
            /\ kept' = Append(kept, i)
       ELSE UNCHANGED <<extracted_data, kept>>
    /\ i' = i + 1
    /\ UNCHANGED <<articles, project_type, pc, text, pct_ret, cost_ret,
                 callVars, searchVars, updateVars, fetchVars,
                 runVars, validVars>>

\* lines 125-126, when lower() is called on what is no string: the exception
\* leaves extract_relevant_data
RaiseError ==
    /\ pc = "loop"
    /\ i <= Len(articles)
    /\ articles[i] # NoneArticle
    /\ Raises(articles[i])
    /\ pc' = "raised"
    /\ UNCHANGED <<articles, project_type, i, extracted_data, kept, text, pct_ret, cost_ret,
                 callVars, searchVars, updateVars, fetchVars,
                 runVars, validVars>>

\* line 181
Return ==
    /\ pc = "loop"
    /\ i > Len(articles)
    /\ pc' = "done"
    /\ UNCHANGED <<articles, project_type, i, extracted_data, kept, text, pct_ret, cost_ret,
                 callVars, searchVars, updateVars, fetchVars,
                 runVars, validVars>>

Next == Begin \/ SkipNone \/ ProcessArticle \/ RaiseError \/ Return

Spec == Init /\ [][Next]_vars

(***************************************************************************)
(* A caller that calls extract_relevant_data several times, with the same  *)
(* or with other arguments.                                                *)
(***************************************************************************)
CallArticle1 == Article(P101, Title1, W_efficacy \o F_85, Y2020, Doi1)
CallArticle2 == Article(P102, Title2, W_cost \o F_dollar, Y2020, Doi1)

CallLists ==
    {<<>>, <<CallArticle1>>, <<CallArticle1, CallArticle2>>,
     <<CallArticle2, CallArticle1>>, <<NoneArticle, CallArticle2>>,
     <<CallArticle1, Article(P101, Title1, NotAString, Y2020, Doi1)>>}

CallTypes == {"hpv_vaccine", "dialysis", "general"}

\* what a call gave its caller: the returned list, or the exception
Outcome ==
    [raised |-> pc = "raised",
     value |-> IF pc = "raised" THEN <<>> ELSE extracted_data]

InitCalls ==
    /\ IdleCalls /\ IdleSearch /\ IdleUpdate /\ IdleFetch /\ IdleRun /\ IdleValidate
    /\ articles \in CallLists
    /\ project_type \in CallTypes
    /\ pc = "call"
    /\ i = 0
    /\ extracted_data = <<>>
    /\ kept = <<>>
    /\ text = <<>>
    /\ pct_ret = Unset
    /\ cost_ret = Unset

\* the caller takes the outcome and calls again; the list of the earlier call
\* is still alive when the next call starts
CallAgain ==
    /\ pc \in {"done", "raised"}
    /\ calls + 1 < MaxCalls
    /\ history' = history \cup {<<<<articles, project_type>>, Outcome>>}
    /\ calls' = calls + 1
    /\ articles' \in CallLists
    /\ project_type' \in CallTypes
    /\ pc' = "call"
    /\ i' = 0
    /\ UNCHANGED <<extracted_data, kept, text, pct_ret, cost_ret, searchVars, updateVars,
                 fetchVars,
                 runVars, validVars>>

NextCalls == Begin \/ SkipNone \/ ProcessArticle \/ RaiseError \/ Return \/ CallAgain

SpecCalls == InitCalls /\ [][NextCalls]_vars

(***************************************************************************)
(* perform_literature_search from its entry to the extraction: the query   *)
(* is read, the project type is determined from the folder name, the       *)
(* articles are fetched and extract_relevant_data runs on them.            *)
(***************************************************************************)
Tag_hpv == <<"h", "p", "v">>
Tag_ncd == <<"n", "c", "d">>
Tag_dialysis == <<"d", "i", "a", "l", "y", "s", "i", "s">>
Tag_mdrtb == <<"m", "d", "r", "t", "b">>
Tag_ai_tb == <<"a", "i", "_", "t", "b">>

\* a mutant of DetermineProjectType: "ncd" is tested before "hpv"
DetermineProjectTypeNcdFirst(name) ==
    IF Contains(Tag_ncd, Lower(name)) THEN "ncd_screening"
    ELSE IF Contains(Tag_hpv, Lower(name)) THEN "hpv_vaccine"
    ELSE IF Contains(Tag_dialysis, Lower(name)) THEN "dialysis"
    ELSE IF Contains(Tag_mdrtb, Lower(name)) THEN "mdrtb"
    ELSE IF Contains(Tag_ai_tb, Lower(name)) THEN "ai_tb_cxr"
    ELSE "general"

\* lines 244-256
DetermineProjectType(name) ==
    IF Contains(Tag_hpv, Lower(name)) THEN "hpv_vaccine"
    ELSE IF Contains(Tag_ncd, Lower(name)) THEN "ncd_screening"
    ELSE IF Contains(Tag_dialysis, Lower(name)) THEN "dialysis"
    ELSE IF Contains(Tag_mdrtb, Lower(name)) THEN "mdrtb"
    ELSE IF Contains(Tag_ai_tb, Lower(name)) THEN "ai_tb_cxr"
    ELSE "general"

NameParts ==
    {<<"h", "t", "a", "_">>, Tag_hpv, <<"H", "p", "v">>, Tag_ncd, <<"N", "C", "D">>,
     Tag_dialysis, Tag_mdrtb, Tag_ai_tb, <<"a", "i">>, <<"_", "t", "b">>}

ProjectNames == {Concat(ps) : ps \in SeqsUpTo(NameParts, MaxNameParts)}

\* what search_and_fetch may return
FetchedLists ==
    {<<>>, <<CallArticle1, CallArticle2>>,
     <<CallArticle2, NoneArticle,
       Article(P101, Title1, W_sensitivity \o F_90 \o F_Cost \o F_dollar, Y2020, Doi1)>>}

InitSearch ==
    /\ IdleCalls /\ IdleUpdate /\ IdleFetch /\ IdleRun /\ IdleValidate
    /\ project_name \in ProjectNames
    /\ pc = "search_entry"
    /\ project_type = "unset"
    /\ articles = <<>>
    /\ i = 0
    /\ extracted_data = <<>>
    /\ kept = <<>>
    /\ text = <<>>
    /\ pct_ret = Unset
    /\ cost_ret = Unset

\* lines 201-241: without a search strings file or a query in it the function
\* returns None
ReadSearchStrings ==
    /\ pc = "search_entry"
    /\ pc' \in {"determine", "returned_none"}
    /\ UNCHANGED <<articles, project_type, i, extracted_data, kept, text, pct_ret, cost_ret,
                 callVars, searchVars, updateVars, fetchVars,
                 runVars, validVars>>

\* lines 243-256
DetermineType ==
    /\ pc = "determine"
    /\ project_type' = DetermineProjectType(project_name)
    /\ pc' = "fetch"
    /\ UNCHANGED <<articles, i, extracted_data, kept, text, pct_ret, cost_ret,
                 callVars, searchVars, updateVars, fetchVars,
                 runVars, validVars>>

\* lines 259-260; line 263 then calls extract_relevant_data
SearchAndFetch ==
    /\ pc = "fetch"
    /\ articles' \in FetchedLists
    /\ pc' = "call"
    /\ UNCHANGED <<project_type, i, extracted_data, kept, text, pct_ret, cost_ret,
                 callVars, searchVars, updateVars, fetchVars,
                 runVars, validVars>>

NextSearch ==
    \/ ReadSearchStrings \/ DetermineType \/ SearchAndFetch
    \/ Begin \/ SkipNone \/ ProcessArticle \/ Return

SpecSearch == InitSearch /\ [][NextSearch]_vars

(***************************************************************************)
(* update_model_with_real_data (data_processor.py).  A model file is a     *)
(* sequence of items: a line of text without its ending, or one of the two *)
(* line-ending bytes.  The lines that matter are the two parameter lines   *)
(* update_hpv_model looks for; a line it wrote carries the sum and the     *)
(* number of the values its mean was taken of.  The files 04_*.py of the   *)
(* folder are indexed by the number of "_updated" suffixes of their stem.  *)
(***************************************************************************)
Item(kind, sum, n) == [kind |-> kind, sum |-> sum, n |-> n]
CR == Item("CR", 0, 0)
LF == Item("LF", 0, 0)
OtherLine == Item("other", 0, 0)
RrLine == Item("vaccine_rr = 0.3", 0, 0)
CostLine == Item("cost_vaccine_per_person = 800", 0, 0)

\* Path.read_text: universal newlines, "\r\n" and "\r" become "\n"
RECURSIVE read_text(_)
read_text(b) ==
    IF b = <<>> THEN <<>>
    ELSE IF Head(b) = CR
         THEN IF Len(b) > 1 /\ b[2] = LF
              THEN <<LF>> \o read_text(SubSeq(b, 3, Len(b)))
              ELSE <<LF>> \o read_text(Tail(b))
    ELSE <<Head(b)>> \o read_text(Tail(b))

\* Path.write_text: "\n" becomes os.linesep
RECURSIVE write_text(_, _)
write_text(t, sep) ==
    IF t = <<>> THEN <<>>
    ELSE (IF Head(t) = LF /\ sep = "CRLF" THEN <<CR, LF>> ELSE <<Head(t)>>)
             \o write_text(Tail(t), sep)

\* cell values of the table: a number, NaN, or text float() rejects
NaN == -1
NotNumeric == -2

\* lines 243-253: the values of a column that pass pd.notna and float()
RECURSIVE ColumnValues(_, _)
ColumnValues(df, col) ==
    IF df = <<>> THEN <<>>
    ELSE (IF col \in DOMAIN Head(df) /\ Head(df)[col] >= 0
          THEN <<Head(df)[col]>> ELSE <<>>) \o ColumnValues(Tail(df), col)

RECURSIVE SumSeq(_)
SumSeq(vs) == IF vs = <<>> THEN 0 ELSE Head(vs) + SumSeq(Tail(vs))

\* str.replace of a whole parameter line
ReplaceLine(content, old, new) ==
    [k \in 1..Len(content) |-> IF content[k] = old THEN new ELSE content[k]]

\* lines 236-270
update_hpv_model(content, df) ==
    LET efficacy_values == ColumnValues(df, "efficacy")
        cost_values == ColumnValues(df, "cost")
        c1 == IF efficacy_values # <<>>
              THEN ReplaceLine(content, RrLine,
                      Item("vaccine_rr", SumSeq(efficacy_values), Len(efficacy_values)))
              ELSE content
    IN  IF cost_values # <<>>
        THEN ReplaceLine(c1, CostLine,
                Item("cost_vaccine_per_person", SumSeq(cost_values), Len(cost_values)))
        ELSE c1

\* a mutant of update_ncd_model: the stub filled in after the HPV pattern
update_ncd_model_filled(content, df) == update_hpv_model(content, df)

\* lines 272-287
update_ncd_model(content, df) == content
update_dialysis_model(content, df) == content
update_mdrtb_model(content, df) == content
update_ai_tb_model(content, df) == content

\* lines 217-229
UpdateByProject(name, content, df) ==
    IF Contains(Tag_hpv, Lower(name)) THEN update_hpv_model(content, df)
    ELSE IF Contains(Tag_ncd, Lower(name)) THEN update_ncd_model(content, df)
    ELSE IF Contains(Tag_dialysis, Lower(name)) THEN update_dialysis_model(content, df)
    ELSE IF Contains(Tag_mdrtb, Lower(name)) THEN update_mdrtb_model(content, df)
    ELSE IF Contains(Tag_ai_tb, Lower(name)) THEN update_ai_tb_model(content, df)
    ELSE content

Contents == SeqsUpTo({OtherLine, RrLine, CostLine, CR, LF}, MaxContent)

UpdateNames ==
    {Concat(ps) : ps \in {<<<<"h", "t", "a", "_">>, t>> : t \in {Tag_hpv, Tag_ncd, Tag_dialysis,
                                                     Tag_mdrtb, Tag_ai_tb, <<>>}}}
    \cup {Tag_ncd \o Tag_hpv, <<"N", "C", "D">>}

Tables ==
    {<<>>,
     <<[efficacy |-> 80, cost |-> 400], [efficacy |-> 90, cost |-> NaN]>>,
     <<[efficacy |-> NotNumeric], [year |-> 2020]>>}

InitUpdate ==
    /\ IdleCalls /\ IdleFetch /\ IdleRun /\ IdleValidate
    /\ project_name \in UpdateNames
    /\ files \in {<<>>} \cup {0 :> c : c \in Contents}
    /\ linesep \in {"LF", "CRLF"}
    /\ df_extracted \in Tables
    /\ df_filled = <<>>
    /\ model_file = -1
    /\ model_content = <<>>
    /\ pc = "update"
    /\ articles = <<>>
    /\ project_type = "unset"
    /\ i = 0
    /\ extracted_data = <<>>
    /\ kept = <<>>
    /\ text = <<>>
    /\ pct_ret = Unset
    /\ cost_ret = Unset

\* lines 202-234, one call.  iterdir gives the entries in no fixed order, so
\* the first 04_*.py file it meets is any of them.
UpdateModel ==
    /\ pc = "update"
    /\ calls < MaxUpdates
    /\ calls' = calls + 1
    /\ IF DOMAIN files = {}
       THEN UNCHANGED <<files, model_file, model_content>>
       ELSE \E f \in DOMAIN files :
               LET content == UpdateByProject(project_name, read_text(files[f]),
                                              df_extracted)
               IN  /\ model_file' = f
                   /\ model_content' = content
                   /\ files' = ((f + 1) :> write_text(content, linesep)) @@ files
    /\ UNCHANGED <<articles, project_type, pc, i, extracted_data, kept, text, pct_ret,
                 cost_ret, history, searchVars, linesep, df_extracted, df_filled,
                 fetchVars, runVars, validVars>>

NextUpdate == UpdateModel

SpecUpdate == InitUpdate /\ [][NextUpdate]_vars

(***************************************************************************)
(* process_project_data (data_processor.py): the template filled from the  *)
(* extracted table, and the model updated with the filled template.        *)
(***************************************************************************)

\* the row each update_*_template builds: the template's columns, each the
\* value of a column of the extracted row, "" when the row has no such column
FillRow(row, cols) ==
    [c \in {x[1] : x \in cols} |->
        LET from == (CHOOSE x \in cols : x[1] = c)[2]
        IN  IF from \in DOMAIN row THEN row[from] ELSE NotNumeric]

FillRows(df, cols) == [k \in 1..Len(df) |-> FillRow(df[k], cols)]

\* lines 47-81: the columns filled from the extracted data
update_hpv_template(df) ==
    FillRows(df, {<<"year", "year">>, <<"efficacy", "efficacy">>,
                  <<"coverage", "coverage">>, <<"vaccine_price_inr", "cost">>})

\* lines 83-111
update_ncd_template(df) ==
    FillRows(df, {<<"year", "year">>, <<"sensitivity", "sensitivity">>,
                  <<"specificity", "specificity">>, <<"cost_per_screening", "cost">>})

\* lines 113-140
update_dialysis_template(df) ==
    FillRows(df, {<<"year", "year">>, <<"survival_rate", "survival_rate">>,
                  <<"cost_per_session", "cost_per_session">>})

\* lines 142-169
update_mdrtb_template(df) ==
    FillRows(df, {<<"year", "year">>, <<"success_rate", "success_rate">>,
                  <<"cost_per_treatment", "cost">>})

\* lines 171-200
update_ai_tb_template(df) ==
    FillRows(df, {<<"year", "year">>, <<"accuracy", "accuracy">>,
                  <<"sensitivity", "sensitivity">>, <<"specificity", "specificity">>})

\* row.get('title', '')[:50] of the notes column: a title pandas read as NaN
\* is a float, which cannot be sliced
NotesRaise(df) ==
    \E k \in 1..Len(df) : "title" \in DOMAIN df[k] /\ df[k]["title"] = NaN

\* lines 31-45, the extracted file and the template being there; <<>> is None
update_data_extraction_template(name, df) ==
    IF Contains(Tag_hpv, Lower(name)) THEN update_hpv_template(df)
    ELSE IF Contains(Tag_ncd, Lower(name)) THEN update_ncd_template(df)
    ELSE IF Contains(Tag_dialysis, Lower(name)) THEN update_dialysis_template(df)
    ELSE IF Contains(Tag_mdrtb, Lower(name)) THEN update_mdrtb_template(df)
    ELSE IF Contains(Tag_ai_tb, Lower(name)) THEN update_ai_tb_template(df)
    ELSE <<>>

UpdateFrame ==
    UNCHANGED <<articles, project_type, i, extracted_data, kept, text, pct_ret,
                cost_ret, history, searchVars, linesep, df_extracted, fetchVars,
                runVars, validVars>>

\* the tables of data/extracted_data.csv, one of them with a title pandas
\* read as NaN
ExtractedTables ==
    Tables \cup {<<[efficacy |-> 70, cost |-> 500, title |-> NaN]>>}

InitData ==
    /\ IdleCalls /\ IdleFetch /\ IdleRun /\ IdleValidate
    /\ project_name \in UpdateNames
    /\ files \in {<<>>} \cup {0 :> c : c \in Contents}
    /\ linesep \in {"LF", "CRLF"}
    /\ df_extracted \in ExtractedTables
    /\ df_filled = <<>>
    /\ model_file = -1
    /\ model_content = <<>>
    /\ pc = "process"
    /\ articles = <<>>
    /\ project_type = "unset"
    /\ i = 0
    /\ extracted_data = <<>>
    /\ kept = <<>>
    /\ text = <<>>
    /\ pct_ret = Unset
    /\ cost_ret = Unset

\* lines 289-301, one call
process_project_data ==
    /\ pc = "process"
    /\ calls < MaxUpdates
    /\ calls' = calls + 1
    /\ UpdateFrame
    /\ LET filled == update_data_extraction_template(project_name, df_extracted) IN
       IF filled # <<>> /\ NotesRaise(df_extracted)
       THEN /\ pc' = "raised"
            /\ UNCHANGED <<files, df_filled, model_file, model_content>>
       ELSE /\ pc' = pc
            /\ df_filled' = filled
            /\ IF filled = <<>> \/ DOMAIN files = {}
               THEN UNCHANGED <<files, model_file, model_content>>
               ELSE \E f \in DOMAIN files :
                       LET content == UpdateByProject(project_name,
                                                      read_text(files[f]), filled)
                       IN  /\ model_file' = f
                           /\ model_content' = content
                           /\ files' = ((f + 1) :> write_text(content, linesep)) @@ files

NextData == process_project_data

SpecData == InitData /\ [][NextData]_vars

(***************************************************************************)
(* PubMedSearcher.search_and_fetch.  A PMID is its position in the list    *)
(* search_pubmed returned, and the article fetched for a PMID is that      *)
(* number.  A request (requests.get with raise_for_status, then the XML    *)
(* parse) either raises, which ends search_and_fetch, or gives the         *)
(* articles of the batch, less those whose parsing failed.                 *)
(***************************************************************************)
ApiLimit == 100
batch_size == 20

\* what fetch_abstracts may return for a batch: every article, or the
\* articles without the one whose parsing raised (lines 54-92)
BatchResults(batch_pmids) == {batch_pmids, Tail(batch_pmids)}

\* pmids[i:i+batch_size], i counted from 0
BatchAt(ps, k) == SubSeq(ps, k + 1, Min({k + batch_size, Len(ps)}))

InitFetch ==
    /\ IdleCalls /\ IdleSearch /\ IdleUpdate /\ IdleRun /\ IdleValidate
    /\ found = <<>>
    /\ pmids = <<>>
    /\ requests = <<>>
    /\ sleeps = 0
    /\ pc = "search"
    /\ articles = <<>>
    /\ project_type = "unset"
    /\ i = 0
    /\ extracted_data = <<>>
    /\ kept = <<>>
    /\ text = <<>>
    /\ pct_ret = Unset
    /\ cost_ret = Unset

\* lines 100-107: search_pubmed returns its list, which is cut to the limit
SearchPubmed ==
    /\ pc = "search"
    /\ \E n \in 0..MaxFound :
          /\ found' = [k \in 1..n |-> k]
          /\ pmids' = IF n > ApiLimit THEN [k \in 1..ApiLimit |-> k] ELSE [k \in 1..n |-> k]
    /\ articles' = <<>>
    /\ i' = 0
    /\ pc' = "fetch_loop"
    /\ UNCHANGED <<project_type, extracted_data, kept, text, pct_ret, cost_ret,
                 callVars, searchVars, updateVars, requests, sleeps,
                 runVars, validVars>>

\* line 100, when the request of search_pubmed raises
SearchRaises ==
    /\ pc = "search"
    /\ pc' = "raised"
    /\ UNCHANGED <<articles, project_type, i, extracted_data, kept, text, pct_ret, cost_ret,
                 callVars, searchVars, updateVars, fetchVars,
                 runVars, validVars>>

\* lines 109-113, one pass of the loop
FetchBatch ==
    /\ pc = "fetch_loop"
    /\ i < Len(pmids)
    /\ LET batch_pmids == BatchAt(pmids, i) IN
       \E batch_articles \in BatchResults(batch_pmids) :
           /\ requests' = Append(requests, [batch |-> batch_pmids, failed |-> FALSE,
                                            result |-> batch_articles])
           /\ articles' = articles \o batch_articles
    /\ sleeps' = sleeps + 1
    /\ i' = i + batch_size
    /\ UNCHANGED <<project_type, pc, extracted_data, kept, text, pct_ret, cost_ret,
                 callVars, searchVars, updateVars, found, pmids,
                 runVars, validVars>>

\* lines 110-111, when the request of fetch_abstracts raises: nothing catches
\* the exception, it leaves search_and_fetch
FetchBatchRaises ==
    /\ pc = "fetch_loop"
    /\ i < Len(pmids)
    /\ requests' = Append(requests, [batch |-> BatchAt(pmids, i), failed |-> TRUE,
                                     result |-> <<>>])
    /\ pc' = "raised"
    /\ UNCHANGED <<articles, project_type, i, extracted_data, kept, text, pct_ret,
                 cost_ret, callVars, searchVars, updateVars, found, pmids, sleeps,
                 runVars, validVars>>

\* line 115
ReturnArticles ==
    /\ pc = "fetch_loop"
    /\ i >= Len(pmids)
    /\ pc' = "returned"
    /\ UNCHANGED <<articles, project_type, i, extracted_data, kept, text, pct_ret, cost_ret,
                 callVars, searchVars, updateVars, fetchVars,
                 runVars, validVars>>

NextFetch ==
    SearchPubmed \/ SearchRaises \/ FetchBatch \/ FetchBatchRaises \/ ReturnArticles

SpecFetch == InitFetch /\ [][NextFetch]_vars

(***************************************************************************)
(* process_project (orchestrator.py), run up to MaxRuns times on one       *)
(* folder.  Each step is one action; what a step calls is modelled by its  *)
(* effect on the folder and on the log: perform_literature_search by its   *)
(* outcomes (no query, an exception of the search, a completed search with *)
(* or without extracted data), process_project_data and generate_manuscript*)
(* by the files they read and write.  A file is known by the run that      *)
(* wrote it, 0 when it does not exist.                                     *)
(***************************************************************************)
EnvFields == {"protocol", "search", "r_script", "rscript", "model", "python", "template"}

\* the folders and systems a run may meet; an interpreter matters only when
\* its script is there
Envs ==
    {e \in [EnvFields -> BOOLEAN] :
        /\ (~e["r_script"] => ~e["rscript"])
        /\ (~e["model"] => ~e["python"])}

RunNames == {<<"h", "t", "a", "_">> \o Tag_hpv, <<"h", "t", "a", "_">>}

NoResults == [run |-> 0, model_stdout |-> "None", log |-> <<>>]

EmptyDisk ==
    [raw_csv |-> 0,
     extracted_csv |-> 0,
     filled_csv |-> [run |-> 0, from |-> 0],
     updated_model |-> 0,
     manuscript |-> [run |-> 0, results_run |-> 0, model_stdout |-> "None"],
     results_json |-> NoResults,
     final_report |-> NoResults]

\* line 150
FirstLog == <<"=== Processing project ===">>

InitRun ==
    /\ IdleCalls /\ IdleUpdate /\ IdleFetch /\ IdleValidate
    /\ project_name \in RunNames
    /\ env \in Envs
    /\ run = 1
    /\ log_lines = FirstLog
    /\ disk = EmptyDisk
    /\ model_stdout = "None"
    /\ steps = <<>>
    /\ pc = "protocol"
    /\ articles = <<>>
    /\ project_type = "unset"
    /\ i = 0
    /\ extracted_data = <<>>
    /\ kept = <<>>
    /\ text = <<>>
    /\ pct_ret = Unset
    /\ cost_ret = Unset

\* the variables no step of process_project touches
RunFrame ==
    UNCHANGED <<articles, project_type, i, extracted_data, kept, text, pct_ret, cost_ret,
                callVars, searchVars, updateVars, fetchVars, validVars, run, env>>

\* a mutant of ReadProtocol: a missing protocol is passed over in silence
ReadProtocolQuietIfMissing ==
    /\ pc = "protocol"
    /\ log_lines' = IF env["protocol"] THEN Append(log_lines, "Protocol: loaded.")
                                        ELSE log_lines
    /\ steps' = Append(steps, "protocol")
    /\ pc' = "search_strings"
    /\ UNCHANGED <<disk, model_stdout>>
    /\ RunFrame

\* lines 152-158
ReadProtocol ==
    /\ pc = "protocol"
    /\ log_lines' = Append(log_lines, IF env["protocol"] THEN "Protocol: loaded."
                                                         ELSE "Protocol: NOT found.")
    /\ steps' = Append(steps, "protocol")
    /\ pc' = "search_strings"
    /\ UNCHANGED <<disk, model_stdout>>
    /\ RunFrame

\* lines 160-165
ReadSearchText ==
    /\ pc = "search_strings"
    /\ log_lines' = Append(log_lines, IF env["search"] THEN "Search strings: loaded."
                                                       ELSE "Search strings: NOT found.")
    /\ steps' = Append(steps, "search_strings")
    /\ pc' = "lit_search"
    /\ UNCHANGED <<disk, model_stdout>>
    /\ RunFrame

\* what perform_literature_search may do: return None for want of a query
\* (lines 202-204, 239-241), raise with the search (line 260), or complete
\* with an empty or a non-empty extraction
SearchOutcomes == IF env["search"] THEN {"raise", "empty", "data"} ELSE {"none"}

\* a mutant of SaveSearchResults: extracted_data.csv is written also when the
\* extraction is empty
SaveSearchResultsAlways(d, outcome) ==
    IF outcome \in {"empty", "data"}
    THEN [d EXCEPT !.raw_csv = run, !.extracted_csv = run]
    ELSE d

\* literature_search.py lines 265-278
SaveSearchResults(d, outcome) ==
    IF outcome = "data" THEN [d EXCEPT !.raw_csv = run, !.extracted_csv = run]
    ELSE IF outcome = "empty" THEN [d EXCEPT !.raw_csv = run]
    ELSE d

\* lines 167-173
LiteratureSearch ==
    /\ pc = "lit_search"
    /\ \E outcome \in SearchOutcomes :
          /\ disk' = SaveSearchResults(disk, outcome)
          /\ IF outcome = "raise"
             THEN /\ log_lines' = Append(log_lines, "Literature search: starting...")
                  /\ pc' = "raised"
                  /\ UNCHANGED steps
             ELSE /\ log_lines' =
                        log_lines \o <<"Literature search: starting...",
                                       IF outcome = "data"
                                       THEN "Literature search: completed."
                                       ELSE "Literature search: failed or no data extracted.">>
                  /\ steps' = Append(steps, "lit_search")
                  /\ pc' = "data_processing"
    /\ UNCHANGED model_stdout
    /\ RunFrame

\* data_processor.py lines 32-45: the folder name holds one of the five tags
HasProjectTag(name) ==
    \E tag \in {Tag_hpv, Tag_ncd, Tag_dialysis, Tag_mdrtb, Tag_ai_tb} :
        Contains(tag, Lower(name))

\* data_processor.py lines 12-45: update_data_extraction_template has rows to
\* fill (extracted_data.csv is never written without rows)
CanFill(d) == d.extracted_csv > 0 /\ env["template"] /\ HasProjectTag(project_name)

\* data_processor.py lines 289-301, when nothing raises: the filled template
\* is written from extracted_data.csv as it stands, then the model is updated
\* if the folder holds one
ProcessProjectData(d) ==
    IF CanFill(d)
    THEN [d EXCEPT !.filled_csv = [run |-> run, from |-> d.extracted_csv],
                   !.updated_model = IF env["model"] THEN run ELSE @]
    ELSE d

\* lines 175-181
DataProcessing ==
    /\ pc = "data_processing"
    /\ \/ /\ disk' = ProcessProjectData(disk)
          /\ log_lines' =
                log_lines \o <<"Data processing: starting...",
                               IF CanFill(disk)
                               THEN "Data processing: completed."
                               ELSE "Data processing: failed or no data to process.">>
          /\ steps' = Append(steps, "data_processing")
          /\ pc' = "r_script"
       \/ \* a row without title: row.get('title', '')[:50] slices a float
          /\ CanFill(disk)
          /\ log_lines' = Append(log_lines, "Data processing: starting...")
          /\ pc' = "raised"
          /\ UNCHANGED <<disk, steps>>
    /\ UNCHANGED model_stdout
    /\ RunFrame

\* a mutant of RunRScript: FileNotFoundError is not caught
RunRScriptUncaught ==
    /\ pc = "r_script"
    /\ IF env["r_script"] /\ ~env["rscript"]
       THEN /\ pc' = "raised"
            /\ UNCHANGED <<log_lines, steps>>
       ELSE /\ log_lines' = Append(log_lines, IF env["r_script"] THEN "R: executed."
                                               ELSE "R: script not found, skipping.")
            /\ steps' = Append(steps, "r_script")
            /\ pc' = "model"
    /\ UNCHANGED <<disk, model_stdout>>
    /\ RunFrame

\* lines 55-74 and 184
RunRScript ==
    /\ pc = "r_script"
    /\ log_lines' =
          Append(log_lines,
                 IF ~env["r_script"] THEN "R: script not found, skipping."
                 ELSE IF ~env["rscript"] THEN "R: Rscript not found on system PATH. Skipping."
                 ELSE "R: executed.")
    /\ steps' = Append(steps, "r_script")
    /\ pc' = "model"
    /\ UNCHANGED <<disk, model_stdout>>
    /\ RunFrame

\* lines 77-97 and 187
RunPythonModel ==
    /\ pc = "model"
    /\ IF ~env["model"]
       THEN /\ log_lines' = Append(log_lines, "Model: no 04_* python model found, skipping.")
            /\ model_stdout' = "None"
       ELSE IF ~env["python"]
       THEN /\ log_lines' = Append(log_lines, "Model: python not found.")
            /\ model_stdout' = "None"
       ELSE \E out \in {"", "ICER: 1200"} :
               /\ model_stdout' = out
               /\ log_lines' =
                     log_lines \o <<"Model: executed.">>
                         \o (IF out # "" THEN <<"Model stdout:">> ELSE <<>>)
    /\ steps' = Append(steps, "model")
    /\ pc' = "manuscript"
    /\ UNCHANGED disk
    /\ RunFrame

\* lines 189-192 with manuscript_generator.py lines 33-39: the manuscript is
\* made of the results.json the folder holds at this moment; reading the
\* data or parsing the model output may raise
GenerateManuscript ==
    /\ pc = "manuscript"
    /\ \/ /\ disk' = [disk EXCEPT !.manuscript =
                          [run |-> run,
                           results_run |-> disk.results_json.run,
                           model_stdout |-> disk.results_json.model_stdout]]
          /\ log_lines' =
                log_lines \o <<"Manuscript generation: starting...",
                               "Manuscript generation: completed.">>
          /\ steps' = Append(steps, "manuscript")
          /\ pc' = "assemble"
       \/ /\ log_lines' = Append(log_lines, "Manuscript generation: starting...")
          /\ pc' = "raised"
          /\ UNCHANGED <<disk, steps>>
    /\ UNCHANGED model_stdout
    /\ RunFrame

\* lines 100-146 and 195
AssembleFinalReport ==
    /\ pc = "assemble"
    /\ LET written == [run |-> run, model_stdout |-> model_stdout, log |-> log_lines]
       IN  disk' = [disk EXCEPT !.results_json = written, !.final_report = written]
    /\ steps' = Append(steps, "assemble")
    /\ pc' = "finished"
    /\ UNCHANGED <<log_lines, model_stdout>>
    /\ RunFrame

\* main is started again on the folder
NextRun ==
    /\ pc \in {"finished", "raised"}
    /\ run < MaxRuns
    /\ run' = run + 1
    /\ log_lines' = FirstLog
    /\ model_stdout' = "None"
    /\ steps' = <<>>
    /\ pc' = "protocol"
    /\ UNCHANGED <<articles, project_type, i, extracted_data, kept, text, pct_ret, cost_ret,
                 callVars, searchVars, updateVars, fetchVars, validVars, env, disk>>

NextProject ==
    \/ ReadProtocol \/ ReadSearchText \/ LiteratureSearch \/ DataProcessing
    \/ RunRScript \/ RunPythonModel \/ GenerateManuscript \/ AssembleFinalReport
    \/ NextRun

SpecProject == InitRun /\ [][NextProject]_vars

(***************************************************************************)
(* validate_hta_system (final_validation.py).  The world is the directory  *)
(* tree the function inspects: for each of the five projects whether its   *)
(* folder is there and what its three files hold, and whether the chart    *)
(* and the summary report are there.                                       *)
(***************************************************************************)
\* lines 22-28
projects ==
    <<"hta_project_01_hpv_vaccine", "hta_project_02_ncd_screening",
      "hta_project_03_dialysis_pdj_hd", "hta_project_04_mdrtb_bpalm",
      "hta_project_05_ai_tb_cxr">>

\* line 90
visual_projects == <<1>>

\* a project whose pipeline has run to its end with data and model output
Complete == [dir |-> TRUE, data |-> "rows", manuscript |-> "good", results |-> "stdout"]

\* a project whose folder is missing: none of its files is there
Absent == [dir |-> FALSE, data |-> "missing", manuscript |-> "missing",
           results |-> "missing"]

\* data/extracted_data.csv: missing, rejected by pd.read_csv, without rows, with rows
\* output/final_manuscript.md: missing, not decodable, short or without the
\*   four sections, long with the four sections
\* output/results.json: missing, not JSON, model_stdout null, model_stdout
\*   blank, model_stdout with text
ProjectStates ==
    {Absent} \cup
    [dir : {TRUE},
     data : {"missing", "unreadable", "empty", "rows"},
     manuscript : {"missing", "unreadable", "short", "good"},
     results : {"missing", "unreadable", "null_stdout", "blank", "stdout"}]

\* the number of things missing or wrong in a project: its folder, or each of
\* its three files
Broken(p) ==
    IF ~p.dir THEN 1
    ELSE (IF p.data = "rows" THEN 0 ELSE 1)
         + (IF p.manuscript = "good" THEN 0 ELSE 1)
         + (IF p.results = "stdout" THEN 0 ELSE 1)

BrokenIn(w) ==
    SumSeq([k \in 1..Len(projects) |-> Broken(w.tree[k])])
        + (IF w.visual THEN 0 ELSE 1) + (IF w.summary THEN 0 ELSE 1)

\* the trees in which at most MaxBroken projects are not complete
ProjectTrees ==
    UNION {{[k \in 1..Len(projects) |-> IF k \in S THEN f[k] ELSE Complete] :
               f \in [S -> {p \in ProjectStates :
                               /\ Broken(p) >= 1
                               /\ Broken(p) + Cardinality(S) <= MaxBroken + 1}]} :
           S \in {T \in SUBSET (1..Len(projects)) : Cardinality(T) <= MaxBroken}}

\* the worlds in which at most MaxBroken things are missing or wrong
Worlds ==
    {w \in [tree : ProjectTrees, visual : BOOLEAN, summary : BOOLEAN] :
        BrokenIn(w) <= MaxBroken}

Check(name, project, status, details) ==
    [check |-> name, project |-> project, status |-> status, details |-> details]

InitValidate ==
    /\ IdleCalls /\ IdleSearch /\ IdleUpdate /\ IdleFetch /\ IdleRun
    /\ world \in Worlds
    /\ validation_results = [overall_status |-> "PASS", checks |-> <<>>]
    /\ saved = <<>>
    /\ pc = "check1"
    /\ articles = <<>>
    /\ project_type = "unset"
    /\ i = 0
    /\ extracted_data = <<>>
    /\ kept = <<>>
    /\ text = <<>>
    /\ pct_ret = Unset
    /\ cost_ret = Unset

ValidateFrame ==
    UNCHANGED <<articles, project_type, i, extracted_data, kept, text, pct_ret, cost_ret,
                callVars, searchVars, updateVars, fetchVars, runVars, world>>

\* lines 31-39
DirectoryCheck(k) ==
    Check("Project directory exists", k,
          IF world.tree[k].dir THEN "PASS" ELSE "FAIL",
          IF world.tree[k].dir THEN "Directory found" ELSE "Directory missing")

CheckDirectories ==
    /\ pc = "check1"
    /\ validation_results' =
          [overall_status |->
              IF \E k \in 1..Len(projects) : ~world.tree[k].dir
              THEN "FAIL" ELSE validation_results.overall_status,
           checks |-> validation_results.checks
                         \o [k \in 1..Len(projects) |-> DirectoryCheck(k)]]
    /\ pc' = "check2"
    /\ UNCHANGED saved
    /\ ValidateFrame

\* lines 42-62
DataCheck(k) ==
    LET d == world.tree[k].data IN
    Check("Data extraction", k,
          IF d = "rows" THEN "PASS" ELSE IF d = "empty" THEN "WARNING" ELSE "FAIL",
          IF d = "missing" THEN "Data file missing"
          ELSE IF d = "unreadable" THEN "Error reading file"
          ELSE IF d = "empty" THEN "0 data rows extracted" ELSE "data rows extracted")

CheckData ==
    /\ pc = "check2"
    /\ validation_results' =
          [validation_results EXCEPT
              !.checks = @ \o [k \in 1..Len(projects) |-> DataCheck(k)]]
    /\ pc' = "check3"
    /\ UNCHANGED saved
    /\ ValidateFrame

\* lines 65-87
ManuscriptCheck(k) ==
    LET m == world.tree[k].manuscript IN
    Check("Manuscript generation", k,
          IF m = "good" THEN "PASS" ELSE IF m = "short" THEN "WARNING" ELSE "FAIL",
          IF m = "missing" THEN "Manuscript missing"
          ELSE IF m = "unreadable" THEN "Error reading manuscript"
          ELSE "words, IMRaD structure")

CheckManuscripts ==
    /\ pc = "check3"
    /\ validation_results' =
          [validation_results EXCEPT
              !.checks = @ \o [k \in 1..Len(projects) |-> ManuscriptCheck(k)]]
    /\ pc' = "check4"
    /\ UNCHANGED saved
    /\ ValidateFrame

\* lines 89-98
VisualCheck(k) ==
    Check("Visual generation", k,
          IF world.tree[k].dir /\ world.visual THEN "PASS" ELSE "WARNING",
          IF world.tree[k].dir /\ world.visual
          THEN "Chart file generated" ELSE "Chart file missing")

CheckVisuals ==
    /\ pc = "check4"
    /\ validation_results' =
          [validation_results EXCEPT
              !.checks = @ \o [k \in 1..Len(visual_projects) |->
                                  VisualCheck(visual_projects[k])]]
    /\ pc' = "check5"
    /\ UNCHANGED saved
    /\ ValidateFrame

\* lines 100-122; a null model_stdout has no strip(), which the except catches
ModelCheck(k) ==
    LET r == world.tree[k].results IN
    Check("Model execution", k,
          IF r = "stdout" THEN "PASS" ELSE IF r = "blank" THEN "WARNING" ELSE "FAIL",
          IF r = "missing" THEN "Results file missing"
          ELSE IF r \in {"unreadable", "null_stdout"} THEN "Error reading results"
          ELSE IF r = "blank" THEN "Model output empty" ELSE "Model output captured")

CheckModelExecution ==
    /\ pc = "check5"
    /\ validation_results' =
          [validation_results EXCEPT
              !.checks = @ \o [k \in 1..Len(projects) |-> ModelCheck(k)]]
    /\ pc' = "check6"
    /\ UNCHANGED saved
    /\ ValidateFrame

\* lines 124-131
CheckSummaryReport ==
    /\ pc = "check6"
    /\ validation_results' =
          [validation_results EXCEPT
              !.checks = Append(@, Check("Summary report generation", 0,
                                         IF world.summary THEN "PASS" ELSE "FAIL",
                                         IF world.summary THEN "Summary report generated"
                                         ELSE "Summary report missing"))]
    /\ pc' = "report"
    /\ UNCHANGED saved
    /\ ValidateFrame

\* lines 133-240: what the report says of the validation as a whole and of
\* each check
Report(results) ==
    [overall_status |-> results.overall_status,
     system_status |-> IF results.overall_status = "PASS"
                       THEN "FULLY OPERATIONAL" ELSE "REQUIRES ATTENTION",
     validation_result |-> results.overall_status,
     rows |-> [k \in 1..Len(results.checks) |-> results.checks[k].status]]

\* lines 133-254
SaveReports ==
    /\ pc = "report"
    /\ saved' = [report |-> Report(validation_results), json |-> validation_results]
    /\ pc' = "validated"
    /\ UNCHANGED validation_results
    /\ ValidateFrame

NextValidate ==
    \/ CheckDirectories \/ CheckData \/ CheckManuscripts \/ CheckVisuals
    \/ CheckModelExecution \/ CheckSummaryReport \/ SaveReports

SpecValidate == InitValidate /\ [][NextValidate]_vars

(***************************************************************************)
(* Direct calls of the two extractors on short texts.                      *)
(***************************************************************************)
TextChars == {"1", "2", ",", ".", "%", "$", "RUPEE", "A_CIRC"}

\* a percentage above one hundred, and a doubled percent sign
ExFiveHundred == <<"5", "0", "0", "%">>
ExDoublePercent == <<"1", "0", "0", "%", "%">>

Texts ==
    SeqsUpTo(TextChars, MaxLen) \cup {Lower(e) : e \in Examples}
        \cup {ExFiveHundred, ExDoublePercent}

InitText ==
    /\ IdleCalls /\ IdleSearch /\ IdleUpdate /\ IdleFetch /\ IdleRun /\ IdleValidate
    /\ text \in Texts
    /\ pct_ret = Unset
    /\ cost_ret = Unset
    /\ articles = <<>>
    /\ project_type = "general"
    /\ pc = "idle"
    /\ i = 0
    /\ extracted_data = <<>>
    /\ kept = <<>>

CallExtractPercentage ==
    /\ pc = "idle"
    /\ pct_ret = Unset
    /\ pct_ret' = extract_percentage(text)
    /\ UNCHANGED <<articles, project_type, pc, i, extracted_data, kept, text, cost_ret,
                 callVars, searchVars, updateVars, fetchVars,
                 runVars, validVars>>

CallExtractCost ==
    /\ pc = "idle"
    /\ cost_ret = Unset
    /\ cost_ret' = extract_cost(text)
    /\ UNCHANGED <<articles, project_type, pc, i, extracted_data, kept, text, pct_ret,
                 callVars, searchVars, updateVars, fetchVars,
                 runVars, validVars>>

NextText == CallExtractPercentage \/ CallExtractCost

SpecText == InitText /\ [][NextText]_vars

(***************************************************************************)
(* The claims.  What the specification says is stated on its own terms:    *)
(* the rule table as a table, and a numeric mention as a substring of the  *)
(* text that belongs to the language of the pattern.                       *)
(***************************************************************************)
Baseline == {"pmid", "title", "year", "doi"}

Metrics(dp) == (DOMAIN dp) \ Baseline

\* <<category, trigger substrings, metric field, extraction kind>>
RuleTable ==
    {<<"hpv_vaccine", {W_efficacy, W_effectiveness}, "efficacy", "percentage">>,
     <<"hpv_vaccine", {W_cost, W_price}, "cost", "currency">>,
     <<"hpv_vaccine", {W_coverage, W_uptake}, "coverage", "percentage">>,
     <<"ncd_screening", {W_sensitivity}, "sensitivity", "percentage">>,
     <<"ncd_screening", {W_specificity}, "specificity", "percentage">>,
     <<"ncd_screening", {W_cost}, "cost", "currency">>,
     <<"dialysis", {W_survival}, "survival_rate", "percentage">>,
     <<"dialysis", {W_cost}, "cost_per_session", "currency">>,
     <<"mdrtb", {W_success, W_cure}, "success_rate", "percentage">>,
     <<"mdrtb", {W_cost}, "cost", "currency">>,
     <<"ai_tb_cxr", {W_accuracy}, "accuracy", "percentage">>,
     <<"ai_tb_cxr", {W_sensitivity}, "sensitivity", "percentage">>,
     <<"ai_tb_cxr", {W_specificity}, "specificity", "percentage">>}

RulesOf(cat) == {r \in RuleTable : r[1] = cat}
MetricsOf(cat) == {r[3] : r \in RulesOf(cat)}
AllMetrics == {r[3] : r \in RuleTable}

Fires(r, abstract) == \E w \in r[2] : Contains(w, abstract)
Found(r, abstract) ==
    IF r[4] = "percentage" THEN extract_percentage(abstract) ELSE extract_cost(abstract)
Matches(r, abstract) == Fires(r, abstract) /\ Found(r, abstract) # None

\* the abstract of a record as the rules see it: missing is empty, case is folded
SeenAbstract(article) ==
    IF "abstract" \in DOMAIN article /\ article.abstract # None
    THEN Lower(article.abstract) ELSE <<>>

\* the articles the loop has gone past
Processed == IF pc \in {"loop", "done", "raised"} THEN 1..(i - 1) ELSE {}
Records == {j \in Processed : articles[j] # NoneArticle}
Dropped == {j \in Records : \A k \in 1..Len(kept) : kept[k] # j}

IsDigits(s) == Len(s) > 0 /\ \A k \in 1..Len(s) : IsDigit(s[k])

\* an unsigned decimal number
IsNumber(s) ==
    \/ IsDigits(s)
    \/ \E d \in 2..(Len(s) - 1) :
          s[d] = "." /\ IsDigits(SubSeq(s, 1, d - 1)) /\ IsDigits(SubSeq(s, d + 1, Len(s)))

\* the substrings of t that are a number immediately followed by a percent sign
PctMentions(t) ==
    {m \in UNION {{<<p, e>> : p \in 1..e} : e \in {x \in 1..(Len(t) - 1) : t[x + 1] = "%"}} :
        IsNumber(SubSeq(t, m[1], m[2]))}

LeftmostPct(t) ==
    LET ms == PctMentions(t) IN
    IF ms = {} THEN None
    ELSE LET m == CHOOSE x \in ms : \A y \in ms : x[1] <= y[1]
         IN  SubSeq(t, m[1], m[2])

\* digit groups separated by single commas
IsGrouped(s) ==
    /\ Len(s) > 0
    /\ \A k \in 1..Len(s) : IsDigit(s[k]) \/ s[k] = ","
    /\ IsDigit(s[1]) /\ IsDigit(s[Len(s)])
    /\ \A k \in 1..(Len(s) - 1) : ~(s[k] = "," /\ s[k + 1] = ",")

\* a digit group with optional thousands separators and decimal portion
IsAmount(s) ==
    \/ IsGrouped(s)
    \/ \E d \in 2..(Len(s) - 1) :
          s[d] = "." /\ IsGrouped(SubSeq(s, 1, d - 1)) /\ IsDigits(SubSeq(s, d + 1, Len(s)))

\* the amounts of t written right after one of the symbols: <<symbol index, last index>>
CostMentions(t, symbols) ==
    {m \in UNION {{<<p, e>> : e \in (p + 1)..Len(t)} : p \in {x \in 1..Len(t) : t[x] \in symbols}} :
        IsAmount(SubSeq(t, m[1] + 1, m[2]))}

\* the longest amount at the leftmost symbol that has one, separators included
LeftmostAmount(t, symbols) ==
    LET ms == CostMentions(t, symbols) IN
    IF ms = {} THEN None
    ELSE LET m == CHOOSE x \in ms :
                    \A y \in ms : x[1] < y[1] \/ (x[1] = y[1] /\ x[2] >= y[2])
         IN  SubSeq(t, m[1] + 1, m[2])

NoSeparators(s) == IF s = None THEN None ELSE SelectSeq(s, LAMBDA c : c # ",")

IsSingle(abstract, ptype) ==
    /\ pc = "done"
    /\ project_type = ptype
    /\ Len(articles) = 1
    /\ articles[1] # NoneArticle
    /\ Get(articles[1], "abstract") = abstract

\* C1: every data point of the output has, beyond the four baseline fields, at
\* least one metric field that holds an extracted numeric text (not None).
C1_RetainedHoldAValue ==
    \A k \in 1..Len(extracted_data) :
        \E m \in Metrics(extracted_data[k]) : extracted_data[k][m] # None

\* C2: when a rule's trigger is in the abstract and the scan of its kind finds
\* nothing, the data point has no key for the rule's metric.
C2_NoMatchOmitsKey ==
    \A k \in 1..Len(extracted_data) :
        \A r \in RulesOf(project_type) :
            LET a == SeenAbstract(articles[kept[k]]) IN
            (Fires(r, a) /\ Found(r, a) = None) => r[3] \notin DOMAIN extracted_data[k]

\* C3: a record that was dropped has no metric match under the rules of the
\* active category: no rule has both its trigger and a value in the abstract.
C3_DroppedHaveNoMatch ==
    \A j \in Dropped :
        \A r \in RulesOf(project_type) : ~Matches(r, SeenAbstract(articles[j]))

C3_Witness ==
    /\ pc = "done"
    /\ project_type = "hpv_vaccine"
    /\ \E j \in Dropped : extract_percentage(SeenAbstract(articles[j])) # None
    /\ Len(extracted_data) > 0

\* C4: the output is a subsequence of the input: the data points come from
\* records at strictly increasing positions, one data point per record, and
\* each carries the fields of its own record.
C4_OrderPreserved ==
    /\ Len(kept) = Len(extracted_data)
    /\ \A k \in 1..Len(kept) :
        /\ kept[k] \in Records
        /\ k > 1 => kept[k - 1] < kept[k]
        /\ \A f \in Baseline : extracted_data[k][f] = Get(articles[kept[k]], f)
        /\ \A r \in RulesOf(project_type) :
              r[3] \in DOMAIN extracted_data[k] => Fires(r, SeenAbstract(articles[kept[k]]))

C4_Witness ==
    /\ pc = "done"
    /\ Len(articles) = 3
    /\ kept = <<1, 3>>
    /\ 2 \in Dropped
    /\ extracted_data[1].pmid # extracted_data[2].pmid

\* C5: under a category outside the five recognized ones the output is empty,
\* whatever the abstracts hold.
C5_UnrecognizedYieldsEmpty ==
    project_type \notin Recognized => extracted_data = <<>>

C5_Witness ==
    /\ pc = "done"
    /\ project_type = "general"
    /\ \E j \in Records :
          /\ Contains(W_efficacy, SeenAbstract(articles[j]))
          /\ extract_percentage(SeenAbstract(articles[j])) # None
    /\ extracted_data = <<>>

\* C6: the metric keys of a data point are among the metrics the rule table
\* lists for the active category; the abstract with "sensitivity: 80%" and
\* "efficacy: 70%" gives efficacy and no sensitivity under hpv_vaccine, and
\* sensitivity and no efficacy under ncd_screening.
C6_CategoryIsolation ==
    /\ \A k \in 1..Len(extracted_data) :
          Metrics(extracted_data[k]) \subseteq MetricsOf(project_type)
    /\ IsSingle(ExIsolation, "hpv_vaccine") =>
          /\ Len(extracted_data) = 1
          /\ Metrics(extracted_data[1]) = {"efficacy"}
    /\ IsSingle(ExIsolation, "ncd_screening") =>
          /\ Len(extracted_data) = 1
          /\ Metrics(extracted_data[1]) = {"sensitivity"}

C6_Witness ==
    /\ IsSingle(ExIsolation, "ncd_screening")
    /\ Get(extracted_data[1], "sensitivity") = <<"8", "0">>

\* C7: a metric's value is the leftmost mention of its kind in the whole
\* abstract, whatever follows it; "efficacy was 85% in group A and 90% in
\* group B" under hpv_vaccine gives efficacy = "85".
C7_FirstMatchWins ==
    /\ \A k \in 1..Len(extracted_data) :
          \A r \in RulesOf(project_type) :
             LET a == SeenAbstract(articles[kept[k]])
                 v == Get(extracted_data[k], r[3])
             IN  v # None =>
                    v = IF r[4] = "percentage"
                        THEN LeftmostPct(a)
                        ELSE NoSeparators(LeftmostAmount(a, CurrencyClass))
    /\ IsSingle(ExFirstMatch, "hpv_vaccine") =>
          /\ Len(extracted_data) = 1
          /\ Get(extracted_data[1], "efficacy") = <<"8", "5">>

C7_Witness ==
    /\ pc = "done"
    /\ project_type = "ai_tb_cxr"
    /\ Len(extracted_data) = 1
    /\ Get(articles[kept[1]], "abstract") = W_accuracy \o F_90 \o F_85
    /\ Get(extracted_data[1], "accuracy") = <<"9", "0">>

\* C8: the cost is the first amount written right after a dollar sign or a
\* rupee sign, and after no other character.
C8_DollarAndRupee ==
    cost_ret # Unset => cost_ret = NoSeparators(LeftmostAmount(text, {"$", "RUPEE"}))

\* C9: the cost is the matched digit group without its commas and with its
\* decimal portion, as text; "cost of $1,200.50 per dose" gives "1200.50".
C9_SeparatorsStripped ==
    /\ cost_ret # Unset =>
          cost_ret = NoSeparators(LeftmostAmount(text, CurrencyClass))
    /\ (cost_ret # Unset /\ text = ExSeparators) =>
          cost_ret = <<"1", "2", "0", "0", ".", "5", "0">>

C9_Witness ==
    /\ text = ExSeparators
    /\ cost_ret = <<"1", "2", "0", "0", ".", "5", "0">>

\* C10: for every record and every metric, the data point of the record holds
\* a value for the metric exactly when a rule of the active category for that
\* metric has one of its triggers in the lower-cased abstract and its kind of
\* scan finds a value, which is then the value held; under dialysis the cost
\* trigger fills cost_per_session and never cost.
C10_RuleTable ==
    /\ \A j \in Records :
        \A m \in AllMetrics :
            LET a == SeenAbstract(articles[j])
                held == {extracted_data[k][m] :
                            k \in {x \in 1..Len(kept) :
                                     /\ kept[x] = j
                                     /\ m \in DOMAIN extracted_data[x]
                                     /\ extracted_data[x][m] # None}}
                due == {Found(r, a) :
                            r \in {x \in RulesOf(project_type) : x[3] = m /\ Matches(x, a)}}
            IN  held = due
    /\ project_type = "dialysis" =>
          \A k \in 1..Len(extracted_data) : "cost" \notin DOMAIN extracted_data[k]

C10_Witness ==
    /\ pc = "done"
    /\ project_type = "dialysis"
    /\ Len(extracted_data) = 1
    /\ Get(articles[kept[1]], "abstract") = ExSeveral
    /\ Get(extracted_data[1], "cost_per_session") = <<"1", "2", "0", "0", ".", "5", "0">>
    /\ Get(extracted_data[1], "survival_rate") = <<"8", "5">>

\* a record without text: title and abstract are empty or missing
NoText(article) ==
    /\ article # NoneArticle
    /\ Get(article, "title") \in {None, <<>>}
    /\ Get(article, "abstract") \in {None, <<>>}

\* every field of every record is a string or is missing
WellTyped(list) ==
    \A j \in 1..Len(list) :
        list[j] # NoneArticle => \A f \in DOMAIN list[j] : list[j][f] # NotAString

\* the records one of whose rules of the active category has its trigger in the abstract
Firing ==
    {j \in Records : \E r \in RulesOf(project_type) : Fires(r, SeenAbstract(articles[j]))}

\* C11: under every category a record whose title and abstract are empty or
\* missing is never in the output, and handling it raises no error.
C11_EmptyTextDropped ==
    \A j \in 1..Len(articles) :
        NoText(articles[j]) =>
            /\ \A k \in 1..Len(kept) : kept[k] # j
            /\ ~(pc = "raised" /\ i = j)

C11_Witness ==
    /\ pc = "done"
    /\ project_type = "mdrtb"
    /\ \E j \in Dropped :
          /\ DOMAIN articles[j] = {"pmid", "title", "abstract", "year", "doi"}
          /\ articles[j].title = <<>>
          /\ articles[j].abstract = <<>>

\* C12: for a batch whose records hold strings or lack fields, under any
\* category string, no exception leaves extract_relevant_data.
C12_NoExceptionWhenWellTyped ==
    WellTyped(articles) => pc # "raised"

C12_Witness ==
    /\ pc = "done"
    /\ project_type = "general"
    /\ Len(articles) = 3
    /\ articles[1] = NoneArticle
    /\ articles[2] = [pmid |-> P102]
    /\ Get(articles[3], "abstract") = W_cost

\* C13: a baseline field the record lacks is the empty string in the retained
\* data point.
C13_MissingFieldIsEmptyString ==
    \A k \in 1..Len(extracted_data) :
        \A f \in Baseline :
            f \notin DOMAIN articles[kept[k]] => extracted_data[k][f] = <<>>

\* C14: every retained data point has the four baseline fields, each equal to
\* the value the source record holds, capitals included.
C14_BaselineVerbatim ==
    \A k \in 1..Len(extracted_data) :
        /\ Baseline \subseteq DOMAIN extracted_data[k]
        /\ \A f \in Baseline \cap DOMAIN articles[kept[k]] :
              extracted_data[k][f] = articles[kept[k]][f]

C14_Witness ==
    /\ pc = "done"
    /\ project_type = "ai_tb_cxr"
    /\ Len(extracted_data) = 1
    /\ extracted_data[1].title = Title1
    /\ Lower(Title1) # Title1
    /\ extracted_data[1].doi = Doi1

\* C15: a record whose abstract holds no trigger of the active category is
\* dropped whatever its title holds, and a metric field is there only for a
\* trigger of the abstract, with the value the abstract gives.
C15_TitleNotScanned ==
    /\ \A j \in Records : j \notin Firing => j \in Dropped
    /\ \A k \in 1..Len(extracted_data) :
          \A r \in RulesOf(project_type) :
              r[3] \in DOMAIN extracted_data[k] =>
                  /\ Fires(r, SeenAbstract(articles[kept[k]]))
                  /\ extracted_data[k][r[3]] = Found(r, SeenAbstract(articles[kept[k]]))

C15_Witness ==
    /\ pc = "done"
    /\ project_type = "hpv_vaccine"
    /\ articles = <<Article(P101, Title2, F_90, Y2020, Doi1)>>
    /\ Contains(W_efficacy, Lower(Title2))
    /\ extract_percentage(Lower(Title2)) # None
    /\ extracted_data = <<>>

\* C20: a record is in the output exactly when a rule fires on its own
\* abstract, whatever identifiers the other records have: records with the
\* same identifier each give their own data point.
C20_NoDeduplication ==
    /\ Len(extracted_data) = Cardinality(Firing)
    /\ \A j \in Firing :
          \E k \in 1..Len(extracted_data) :
              kept[k] = j /\ extracted_data[k].pmid = Get(articles[j], "pmid")

C20_Witness ==
    /\ pc = "done"
    /\ Len(articles) = 3
    /\ Len(extracted_data) = 3
    /\ Get(articles[1], "pmid") = Get(articles[2], "pmid")
    /\ articles[1] # articles[2]
    /\ articles[3] = articles[1]

\* C17: extract_percentage returns the matched number as the text wrote it,
\* with no conversion and no range check: every text that holds a number
\* followed by a percent sign gives a value, that value is one of the text's
\* own mentions, "500%" gives "500" and "100%%" gives "100".
C17_PercentageAsText ==
    /\ pct_ret # Unset =>
          /\ PctMentions(text) # {} => pct_ret # None
          /\ pct_ret # None =>
                \E m \in PctMentions(text) : pct_ret = SubSeq(text, m[1], m[2])
    /\ (text = ExFiveHundred /\ pct_ret # Unset) => pct_ret = <<"5", "0", "0">>
    /\ (text = ExDoublePercent /\ pct_ret # Unset) => pct_ret = <<"1", "0", "0">>

C17_Witness ==
    /\ text = ExFiveHundred
    /\ pct_ret = <<"5", "0", "0">>

\* C16: a call of extract_relevant_data gives the outcome that every earlier
\* call with the same records and the same category gave, whatever calls were
\* made in between.
C16_Determinism ==
    pc \in {"done", "raised"} =>
        \A h \in history : h[1] = <<articles, project_type>> => h[2] = Outcome

C16_Witness ==
    /\ pc = "done"
    /\ calls = 2
    /\ Len(extracted_data) = 2
    /\ \E h \in history : h[1] = <<articles, project_type>>
    /\ \E h \in history : h[1] # <<articles, project_type>> /\ Len(h[2].value) = 1

\* the folder-name tags in the order they are tried, with their categories
TagOrder ==
    <<<<(<<"h", "p", "v">>), "hpv_vaccine">>,
      <<(<<"n", "c", "d">>), "ncd_screening">>,
      <<(<<"d", "i", "a", "l", "y", "s", "i", "s">>), "dialysis">>,
      <<(<<"m", "d", "r", "t", "b">>), "mdrtb">>,
      <<(<<"a", "i", "_", "t", "b">>), "ai_tb_cxr">>>>

SameLetter(a, b) ==
    a = b \/ \E k \in 1..Len(UPPER) : {a, b} = {UPPER[k], LOWER[k]}

\* tag occurs in name, letter case apart
Occurs(tag, name) ==
    \E p \in 1..(Len(name) - Len(tag) + 1) :
        \A k \in 1..Len(tag) : SameLetter(name[p + k - 1], tag[k])

CategoryOf(name) ==
    LET hits == {k \in 1..Len(TagOrder) : Occurs(TagOrder[k][1], name)} IN
    IF hits = {} THEN "general"
    ELSE TagOrder[CHOOSE k \in hits : \A h \in hits : k <= h][2]

\* C18: the category is the one of the first tag, in the order hpv, ncd,
\* dialysis, mdrtb, ai_tb, that occurs in the folder name whatever its letter
\* case, and "general" when none occurs; it stays that through the batch, and
\* every record is kept or dropped, and its metrics named, by that category.
C18_CategoryFromFolderName ==
    pc \in {"fetch", "call", "loop", "done"} =>
        /\ project_type = CategoryOf(project_name)
        /\ \A j \in Records :
              j \in Dropped <=>
                 ~\E r \in RulesOf(CategoryOf(project_name)) :
                     Fires(r, SeenAbstract(articles[j]))
        /\ \A k \in 1..Len(extracted_data) :
              (DOMAIN extracted_data[k]) \ Baseline
                  \subseteq MetricsOf(CategoryOf(project_name))

C18_Witness ==
    /\ pc = "done"
    /\ project_name = <<"N", "C", "D", "h", "p", "v">>
    /\ project_type = "hpv_vaccine"
    /\ Len(articles) = 2
    /\ Len(extracted_data) = 2
    /\ "efficacy" \in DOMAIN extracted_data[1]
    /\ "cost" \in DOMAIN extracted_data[2]

\* the project types whose model updater is a stub
StubCategories == {"ncd_screening", "dialysis", "mdrtb", "ai_tb_cxr"}

\* every line ending of the bytes b is the platform's
NativeNewlines(b) ==
    IF linesep = "LF"
    THEN \A k \in 1..Len(b) : b[k] # CR
    ELSE /\ \A k \in 1..Len(b) : b[k] = CR => (k < Len(b) /\ b[k + 1] = LF)
         /\ \A k \in 1..Len(b) : b[k] = LF => (k > 1 /\ b[k - 1] = CR)

C21_InputUnchanged == [][articles' = articles]_vars

C21_Witness ==
    /\ pc = "done"
    /\ Len(articles) = 3
    /\ Len(extracted_data) = 1
    /\ kept = <<2>>
    /\ articles[1] # NoneArticle
    /\ Get(articles[2], "abstract") # Lower(Get(articles[2], "abstract"))
    /\ articles[3] = NoneArticle

\* the metric keys of a category whose value is a percentage
PctMetricsOf(cat) == {r[3] : r \in {x \in RulesOf(cat) : x[4] = "percentage"}}

\* C22: in every data point the percentage metrics that are present all hold
\* one value, the leftmost percentage of the abstract, whichever trigger put
\* them there; "accuracy 90%, sensitivity 85%, specificity 80%" under ai_tb_cxr
\* gives 90 for all three.
C22_PercentagesAllEqual ==
    /\ \A k \in 1..Len(extracted_data) :
          LET dp == extracted_data[k]
              present == PctMetricsOf(project_type) \cap DOMAIN dp
          IN  /\ \A m, n \in present : dp[m] = dp[n]
              /\ \A m \in present :
                    dp[m] = LeftmostPct(SeenAbstract(articles[kept[k]]))
    /\ IsSingle(ExThreeMetrics, "ai_tb_cxr") =>
          /\ Len(extracted_data) = 1
          /\ \A m \in {"accuracy", "sensitivity", "specificity"} :
                Get(extracted_data[1], m) = <<"9", "0">>

C22_Witness ==
    /\ IsSingle(ExThreeMetrics, "ai_tb_cxr")
    /\ Len(extracted_data) = 1
    /\ Get(extracted_data[1], "accuracy") = <<"9", "0">>
    /\ Get(extracted_data[1], "specificity") = <<"9", "0">>
    /\ Cardinality(PctMentions(ExThreeMetrics)) >= 3

\* the PMIDs kept: at most the first 100 of those the search returned
KeptPmids == SubSeq(found, 1, IF Len(found) > 100 THEN 100 ELSE Len(found))

\* the consecutive batches of at most 20 of the kept PMIDs
NumBatches == (Len(KeptPmids) + 19) \div 20
ExpectedBatch(k) ==
    SubSeq(KeptPmids, 20 * (k - 1) + 1,
           IF 20 * k < Len(KeptPmids) THEN 20 * k ELSE Len(KeptPmids))

RequestResults == Concat([k \in 1..Len(requests) |-> requests[k].result])
Succeeded == {k \in 1..Len(requests) : ~requests[k].failed}

\* C23: when search_and_fetch ends, every batch of the kept PMIDs has been
\* requested exactly once, in order, also after a request that failed; a
\* delay followed every batch; what is returned is the concatenation of the
\* batch results in batch order.
C23_EveryBatchRequestedOnce ==
    pc \in {"returned", "raised"} =>
        /\ Len(requests) = NumBatches
        /\ \A k \in 1..Len(requests) : requests[k].batch = ExpectedBatch(k)
        /\ sleeps = NumBatches
        /\ pc = "returned" => articles = RequestResults

\* what does hold of search_and_fetch: the kept PMIDs are the first 100 at
\* most, in consecutive batches of at most 20; the batches are requested in
\* order and never twice; a failed request ends the call; a call that returns
\* has requested every batch and returns the concatenated results.
FetchedInOrderUntilFailure ==
    /\ pc # "search" => pmids = KeptPmids
    /\ Len(KeptPmids) <= 100
    /\ Concat([k \in 1..NumBatches |-> ExpectedBatch(k)]) = KeptPmids
    /\ \A k \in 1..NumBatches : Len(ExpectedBatch(k)) \in 1..20
    /\ Len(requests) <= NumBatches
    /\ \A k \in 1..Len(requests) :
          /\ requests[k].batch = ExpectedBatch(k)
          /\ requests[k].failed => (k = Len(requests) /\ pc = "raised")
    /\ sleeps = Cardinality(Succeeded)
    /\ articles = RequestResults
    /\ pc = "returned" =>
          (Len(requests) = NumBatches /\ Cardinality(Succeeded) = NumBatches)

\* the steps of a run in their order
StepOrder ==
    <<"protocol", "search_strings", "lit_search", "data_processing", "r_script", "model",
      "manuscript", "assemble">>

\* the log entries each step before the assembly may leave
EntriesOf ==
    [protocol |-> {"Protocol: loaded.", "Protocol: NOT found."},
     search_strings |-> {"Search strings: loaded.", "Search strings: NOT found."},
     lit_search |-> {"Literature search: completed.",
                     "Literature search: failed or no data extracted."},
     data_processing |-> {"Data processing: completed.",
                          "Data processing: failed or no data to process."},
     r_script |-> {"R: executed.", "R: script not found, skipping.",
                   "R: Rscript not found on system PATH. Skipping."},
     model |-> {"Model: executed.", "Model: no 04_* python model found, skipping.",
                "Model: python not found."},
     manuscript |-> {"Manuscript generation: completed."}]

InLog(entry, log) == \E k \in 1..Len(log) : log[k] = entry

\* log holds an entry of every step before the assembly
LogCoversRun(log) == \A st \in DOMAIN EntriesOf : \E e \in EntriesOf[st] : InLog(e, log)

\* C24: the steps of a run are taken in the fixed order; results.json and
\* final_report.md are written only after the seven other steps of that run,
\* and the log they hold has an entry of each of those steps.
C24_FixedStepOrder ==
    /\ Len(steps) <= Len(StepOrder)
    /\ \A k \in 1..Len(steps) : steps[k] = StepOrder[k]
    /\ \A f \in {disk.results_json, disk.final_report} :
          /\ f.run = run => (pc = "finished" /\ steps = StepOrder /\ f.log = log_lines)
          /\ f.run > 0 => LogCoversRun(f.log)
    /\ disk.results_json = disk.final_report

C24_Witness ==
    /\ pc = "finished"
    /\ run = 2
    /\ disk.results_json.run = 2
    /\ ~env["protocol"] /\ env["search"] /\ ~env["r_script"] /\ env["python"]
    /\ InLog("Protocol: NOT found.", disk.final_report.log)
    /\ InLog("Literature search: completed.", disk.results_json.log)

\* C25: a missing R script, Rscript executable, model file or python
\* executable leaves its skip message in the log and raises nothing: a run
\* never ends in an exception at the R step or at the model step, and goes on
\* to the manuscript and to the assembly.
C25_MissingToolsNotFatal ==
    /\ pc = "raised" => Len(steps) \notin {4, 5}
    /\ Len(steps) >= 5 =>
          /\ ~env["r_script"] => InLog("R: script not found, skipping.", log_lines)
          /\ (env["r_script"] /\ ~env["rscript"]) =>
                InLog("R: Rscript not found on system PATH. Skipping.", log_lines)
    /\ Len(steps) >= 6 =>
          /\ ~env["model"] => InLog("Model: no 04_* python model found, skipping.", log_lines)
          /\ (env["model"] /\ ~env["python"]) => InLog("Model: python not found.", log_lines)
          /\ ~(env["model"] /\ env["python"]) => model_stdout = "None"
    /\ pc = "finished" => (disk.manuscript.run = run /\ disk.final_report.run = run)

C25_Witness ==
    /\ pc = "finished"
    /\ env["r_script"] /\ ~env["rscript"]
    /\ env["model"] /\ ~env["python"]
    /\ InLog("R: Rscript not found on system PATH. Skipping.", disk.results_json.log)
    /\ InLog("Model: python not found.", disk.results_json.log)
    /\ disk.manuscript.run = run

\* C27: the results.json a manuscript was made of was written earlier in the
\* run that made the manuscript, and was not absent when the model of that
\* run produced output.
C27_ManuscriptOfSameRun ==
    disk.manuscript.run > 0 =>
        /\ disk.manuscript.results_run = disk.manuscript.run
        /\ disk.manuscript.results_run # 0

\* C28: a completed search writes search_results_raw.csv; extracted_data.csv
\* is written when, and only when, the extraction is not empty; a search that
\* extracts nothing leaves an extracted_data.csv of an earlier run as it is,
\* and the data processing of the same run then fills the template from it.
C28_StaleExtractedDataKept ==
    /\ [](/\ (Len(steps) >= 3 /\ env["search"]) => disk.raw_csv = run
          /\ Len(steps) >= 3 =>
                (disk.extracted_csv = run <=>
                    InLog("Literature search: completed.", log_lines))
          /\ (disk.filled_csv.run = run
                  /\ InLog("Literature search: failed or no data extracted.", log_lines))
                => disk.filled_csv.from \in 1..(run - 1))
    /\ [][(pc = "lit_search" /\ pc' = "data_processing"
             /\ InLog("Literature search: failed or no data extracted.", log_lines'))
           => disk'.extracted_csv = disk.extracted_csv]_vars

C28_Witness ==
    /\ pc = "finished"
    /\ run = 2
    /\ InLog("Literature search: failed or no data extracted.", log_lines)
    /\ disk.raw_csv = 2
    /\ disk.extracted_csv = 1
    /\ disk.filled_csv = [run |-> 2, from |-> 1]

\* the written text of the parameter line old is, wherever the model file
\* has it, the line new
LineReplaced(old, new) ==
    LET orig == read_text(files[model_file])
        upd == read_text(files[model_file + 1])
    IN  /\ Len(upd) = Len(orig)
        /\ \A k \in 1..Len(orig) : orig[k] = old => upd[k] = new

\* process_project_data has updated the original model of an HPV project
HpvModelUpdated ==
    /\ df_filled # <<>>
    /\ model_file = 0
    /\ CategoryOf(project_name) = "hpv_vaccine"

\* C26: after process_project_data has updated the original model of an HPV
\* project, each of the two parameter lines (efficacy, cost) for which the
\* extracted data hold a numeric value is replaced by the literature mean.
C26_BothParametersUpdated ==
    HpvModelUpdated =>
        LET ev == ColumnValues(df_extracted, "efficacy")
            cv == ColumnValues(df_extracted, "cost")
        IN  /\ ev # <<>> =>
                  LineReplaced(RrLine, Item("vaccine_rr", SumSeq(ev), Len(ev)))
            /\ cv # <<>> =>
                  LineReplaced(CostLine,
                               Item("cost_vaccine_per_person", SumSeq(cv), Len(cv)))

\* the efficacy half of C26, which the code keeps
EfficacyUpdated ==
    HpvModelUpdated =>
        LET ev == ColumnValues(df_extracted, "efficacy")
        IN  ev # <<>> =>
               LineReplaced(RrLine, Item("vaccine_rr", SumSeq(ev), Len(ev)))

\* C29: however often the model is updated, the file selected is the original
\* 04_X.py, never a written 04_X_updated.py, and the only file written is
\* 04_X_updated.py: no 04_X_updated_updated.py appears.
C29_AlwaysFromOriginal ==
    /\ model_file <= 0
    /\ DOMAIN files \subseteq {0, 1}

\* the checks recorded so far that failed
FailedChecks(results) ==
    {k \in 1..Len(results.checks) : results.checks[k].status = "FAIL"}

\* C30: when validate_hta_system has saved its two files and any check is
\* recorded as FAIL, the overall status in the report and in
\* validation_results.json is FAIL.
C30_AnyFailFailsOverall ==
    pc = "validated" =>
        (FailedChecks(saved.json) # {} =>
            /\ saved.json.overall_status = "FAIL"
            /\ saved.report.overall_status = "FAIL")

\* what the code keeps: a missing project folder fails the validation
MissingFolderFailsOverall ==
    pc = "validated" =>
        ((\E k \in 1..Len(projects) : ~world.tree[k].dir) =>
            /\ saved.json.overall_status = "FAIL"
            /\ saved.report.overall_status = "FAIL")

====
